---- MODULE Spec2Model ----
(***************************************************************************)
(* State-machine model of the task orchestration and caching engine of    *)
(* firecrawl_cli: the bounded-concurrency TaskQueue                        *)
(* (src/commands/task_queue.rs) and the in-memory result cache             *)
(* (src/services/cache_service.rs).                                        *)
(***************************************************************************)
EXTENDS Integers, Sequences, FiniteSets, TLC

(***************************************************************************)
(* Bounds of the model.                                                    *)
(***************************************************************************)
\* Largest concurrency limit a queue is created with.
MaxConcurrency == 2
\* Number of commands enqueued over the life of the queue.
MaxTasks == 2
\* Number of calls that write the cache (store, get, clear, clean_expired) started
\* over the life of the cache.
MaxCacheOps == 3
\* Number of times the clock is advanced.
MaxTicks == 1
\* Milliseconds by which the clock advances in one step: more than a second.
TickMs == 1001

(***************************************************************************)
(* Inputs.                                                                 *)
(***************************************************************************)
\* The target of the i-th command enqueued: the caller gives every command a target
\* of its own.
Target(i) == "site" \o ToString(i)
\* The two implementations of the Command trait.
Kinds == {"scrape", "crawl"}
\* Errors a command's execute can return (FirecrawlError variants).
ExecErrors == {"ApiError", "StorageError"}
\* Milliseconds in a second (Duration::as_secs drops what is below one second).
MsPerSec == 1000
\* config.ttl of the cache, in milliseconds: none, below one second, one second.
TtlChoices == {0, 1, 1000}
\* The tasks that use the cache at the same time.
CacheClients == {1, 2}
\* The two kinds of cached data, as generate_key names them.
DataTypes == {"scrape", "crawl"}
\* The results the callers store and ask for: the kind of task, the url and the
\* format (by its Display). They differ from the first in the format, in the kind.
CacheCalls == {<<"scrape", "a.com", "markdown">>, <<"scrape", "a.com", "html">>,
               <<"crawl", "a.com", "markdown">>}
\* The (url, format) pairs of the calls of one kind, and of all of them.
CallsOf(data_type) == {<<cl[2], cl[3]>> : cl \in {x \in CacheCalls : x[1] = data_type}}
CacheTargets == {<<cl[2], cl[3]>> : cl \in CacheCalls}
\* Number of status polls the remote answers with a job still in progress.
MaxPolls == 2
\* The urls a crawl is asked for: none given, and a site.
CrawlUrls == {"", "a.com"}
\* The job ids the remote gives out.
JobIds == {"job1", "job2"}
\* The status strings the remote reports besides "completed" and "failed".
OtherStatuses == {"started", "scraping", "", "Completed"}
\* The reasons a failed job comes with.
FailReasons == {"x"}
\* Number of errors asked whether they are retryable.
MaxClassified == 2
\* Number of notify_* calls made over the life of the progress service.
MaxNotifies == 2
\* The tasks that call the progress service at the same time.
NotifyCallers == {1, 2}
\* The observers that register, by observer_id(): the one observer a service made by
\* ProgressServiceFactory has.
ObserverIds == {"console"}
\* An observer whose callbacks never return or panic, and the observers there are.
StuckObserver == "stuck"
AllObservers == ObserverIds \cup {StuckObserver}
\* The (url, task_type) each caller notifies about: the task it is running.
NotifyTask(c) == IF c = 1 THEN <<"a.com", "scrape">> ELSE <<"b.org", "crawl">>
\* The progress a caller reports (percent of 1.0) and the error of a failed task.
ProgressValues == {50}
NotifyErrors == {"ApiError"}

VARIABLES
    \* ---- TaskQueue (task_queue.rs:11-15)
    limit,        \* concurrency_limit the queue was created with
    commands,     \* VecDeque of pending commands
    permits,      \* permits available in the semaphore
    \* ---- the caller running execute_all / execute_sequential
    pc,           \* position of the caller
    results,      \* local Vec results
    handles,      \* local Vec handles: indices into units
    joined,       \* number of handles already awaited
    cur,          \* the command execute_sequential is executing
    ret,          \* what the last call returned
    \* ---- the spawned units of work (tokio::spawn)
    units,        \* sequence of [cmd, st]
    \* ---- observations and history
    probe,        \* last answer of pending_count / is_empty
    nEnq,         \* commands enqueued so far (also the next command's id)
    nDeq,         \* commands dequeued so far
    deqLog,       \* ids of the dequeued commands, in dequeue order
    execCount,    \* how many times each command's execute was invoked
    runStart      \* [deq, enq]: nDeq and nEnq when the current run began

queueVars == <<limit, commands, permits, pc, results, handles, joined, cur, ret,
               units, probe, nEnq, nDeq, deqLog, execCount, runStart>>

VARIABLES
    \* ---- MemoryCacheService (cache_service.rs:83-87)
    ttl,          \* config.ttl, in milliseconds
    cache,        \* the HashMap: key -> entry (NoEntry where the key is absent)
    statistics,   \* CacheStatistics
    \* ---- the clock and the callers of the cache
    now,          \* chrono::Utc::now(), in milliseconds
    cachePc,      \* position of each client's call
    cacheLocal,   \* locals of each client's call between its two lock scopes
    cacheRet,     \* what the last call that returned gave back
    \* ---- history
    lastCacheOp,  \* the last call that took the cache write lock
    lastPut,      \* per (kind, url, format): the result of the last store made for it
    nCacheOps,    \* calls that write the cache started so far
    nTicks        \* clock steps so far

cacheVars == <<ttl, cache, statistics, now, cachePc, cacheLocal, cacheRet, lastCacheOp,
               lastPut, nCacheOps, nTicks>>

VARIABLES
    \* ---- the caller of TaskService::execute_scrape (task_service.rs:38-76)
    svcPc,        \* position of the call
    svcTask,      \* the (url, format) of the call
    svcResult,    \* local result of command.execute
    svcRet,       \* what each call so far returned, in order
    remoteCalls   \* per (url, format): requests made to the remote API

taskVars == <<svcPc, svcTask, svcResult, svcRet, remoteCalls>>

VARIABLES
    \* ---- DefaultProgressService (progress_service.rs:54-57)
    taskStatistics, \* TaskStatistics: the counters of the notifier
    observers,      \* ids of the registered observers (keys of the HashMap)
    \* ---- the callers of notify_* and the spawned observer callbacks
    notifyPc,       \* per caller: the call it is in, between its two lock scopes
    spawned,        \* callbacks spawned and not yet run: [id, observer, event]
    delivered,      \* per observer: the events its callbacks have received, in order
    snapshot,       \* what get_statistics returned, while the service is as it was
    \* ---- history
    notified        \* per method: calls that the notifier received / that returned

progressVars == <<taskStatistics, observers, notifyPc, spawned, delivered, snapshot,
                  notified>>

VARIABLES
    \* ---- a crawl: CrawlCommand::execute or FirecrawlClient::crawl (client.rs)
    pollPc,         \* position of the call
    poller,         \* which of the two runs, or the builder that made no command
    cmdUrl,         \* the url of the command / of the call
    pollJob,        \* job_id of the job started
    pollState,      \* local state: what the last check_crawl_status returned
    pollRet,        \* what monitor_crawl_job / crawl returned
    cmdRet,         \* what CrawlCommand::execute, or the builder, returned
    \* ---- history
    startLog,       \* requests that start a job: how many, and the url of the last
    polls,          \* status requests made for the job
    lastAnswer,     \* the remote's answer to the last status request
    callbacks       \* progress_callback invocations: how many, and the last argument

pollVars == <<pollPc, poller, cmdUrl, pollJob, pollState, pollRet, cmdRet, startLog,
              polls, lastAnswer, callbacks>>

VARIABLES
    \* ---- concurrent callers of TaskService::execute_scrape / execute_crawl
    taskPhase,      \* per caller: how far its call is
    taskLog         \* per caller: the events its current task has notified, in order

callerVars == <<taskPhase, taskLog>>

VARIABLES
    \* ---- a caller asking errors for their code and whether they are retryable
    classified      \* the answers so far: [error, retryable, code]

errorVars == <<classified>>

VARIABLES
    \* ---- several callers running execute_all / execute_sequential on one queue
    runPc,          \* per runner: "idle", "all_loop", "seq_loop", "seq_exec"
    runTaken        \* per runner: the ids of the commands its pop_front returned

runVars == <<runPc, runTaken>>

VARIABLES
    \* ---- the lock scopes of concurrent calls on a service (tokio::sync::RwLock)
    lockOp,         \* per client: the operation it is in, "none" outside a call
    lockPc,         \* per client: its position in the operation's lock scopes
    lockQueue,      \* per lock: the requests waiting, oldest first
    lockHeld        \* per lock: the guards alive, [client, mode]

lockVars == <<lockOp, lockPc, lockQueue, lockHeld>>

VARIABLES
    \* ---- callbacks of an observer that does not return
    hanging         \* callbacks that were started and never return

deliveryVars == <<hanging>>

VARIABLES
    \* ---- history of register_observer / unregister_observer
    regReturned,    \* the one of the two that returned last, "none" before any
    regView         \* per client: regReturned when its notify_* call began,
                    \* "unknown" when a register / unregister call overlaps it

registryVars == <<regReturned, regView>>

\* The components added last, which the operations of the others leave alone.
restVars == <<callerVars, errorVars, runVars, lockVars, deliveryVars, registryVars>>

\* What the operations of one component leave alone.
nonQueueVars == <<cacheVars, taskVars, progressVars, pollVars, restVars>>
nonCacheVars == <<queueVars, taskVars, progressVars, pollVars, restVars>>
nonProgressVars == <<queueVars, cacheVars, taskVars, pollVars, restVars>>
nonPollVars == <<queueVars, cacheVars, taskVars, progressVars, restVars>>
nonCallerVars == <<queueVars, cacheVars, taskVars, pollVars, errorVars, runVars, lockVars,
                   deliveryVars, registryVars>>
nonErrorVars == <<queueVars, cacheVars, taskVars, progressVars, pollVars, callerVars, runVars,
                  lockVars, deliveryVars, registryVars>>
nonRunVars == <<cacheVars, taskVars, progressVars, pollVars, callerVars, errorVars, lockVars,
                deliveryVars, registryVars>>
nonLockVars == <<queueVars, cacheVars, taskVars, progressVars, pollVars, callerVars, errorVars,
                 runVars, deliveryVars, registryVars>>
nonDeliveryVars == <<queueVars, cacheVars, taskVars, pollVars, callerVars, errorVars, runVars,
                     lockVars, registryVars>>
nonRegistryVars == <<queueVars, cacheVars, taskVars, pollVars, callerVars, errorVars, runVars,
                     deliveryVars>>

vars == <<queueVars, cacheVars, taskVars, progressVars, pollVars, restVars>>

----------------------------------------------------------------------------
(***************************************************************************)
(* Values.                                                                 *)
(***************************************************************************)
NoCommand == [id |-> 0, kind |-> "none", url |-> ""]
NoProbe == [op |-> "none", count |-> 0, empty |-> FALSE]
NoReturn == [op |-> "none", tag |-> "none", results |-> <<>>, error |-> "", at |-> 0]
\* The call's future was dropped before it returned.
Dropped(op) == [op |-> op, tag |-> "dropped", results |-> <<>>, error |-> "", at |-> 0]
\* Ok(results)
ReturnOk(op, rs) == [op |-> op, tag |-> "ok", results |-> rs, error |-> "", at |-> 0]
\* Err(e); `at` records the command the error came from.
ReturnErr(op, e, id) == [op |-> op, tag |-> "err", results |-> <<>>, error |-> e, at |-> id]

\* PathBuf::new(): the empty path.
EmptyPath == ""
\* The path a content saver returns for a saved page of `url`.
SavedPath(url) == "out/" \o url

\* CommandResult::Scrape { url, file_path } / CommandResult::Crawl { url, file_paths }
ScrapeResult(url, path) == [kind |-> "Scrape", url |-> url, paths |-> <<path>>]
CrawlResult(url, paths) == [kind |-> "Crawl", url |-> url, paths |-> paths]

\* What Command::execute returns on success.
ExecuteResult(cmd) ==
    IF cmd.kind = "scrape"
    THEN ScrapeResult(cmd.url, SavedPath(cmd.url))
    ELSE CrawlResult(cmd.url, <<SavedPath(cmd.url)>>)

\* What the unit spawned by execute_all returns: a placeholder, whatever the command.
PlaceholderResult(cmd) == ScrapeResult(cmd.url, EmptyPath)

----------------------------------------------------------------------------
(***************************************************************************)
(* TaskQueue::new                                                          *)
(***************************************************************************)
QueueInit ==
    /\ limit \in 0..MaxConcurrency
    /\ commands = <<>>
    /\ permits = limit
    /\ pc = "idle"
    /\ results = <<>>
    /\ handles = <<>>
    /\ joined = 0
    /\ cur = NoCommand
    /\ ret = NoReturn
    /\ units = <<>>
    /\ probe = NoProbe
    /\ nEnq = 0
    /\ nDeq = 0
    /\ deqLog = <<>>
    /\ execCount = [i \in 1..MaxTasks |-> 0]
    /\ runStart = [deq |-> 0, enq |-> 0]

\* Mutant of PushBack: the command is put at the front of the deque.
PushFront(q, c) == <<c>> \o q

\* VecDeque::push_back
PushBack(q, c) == Append(q, c)
\* Mutant of PopFront: the command is taken from the back of the deque.
PopBack(q) == [item |-> q[Len(q)], rest |-> SubSeq(q, 1, Len(q) - 1)]

\* VecDeque::pop_front on a non-empty deque: the element removed and what is left.
PopFront(q) == [item |-> Head(q), rest |-> Tail(q)]

\* enqueue
Enqueue(kind, url) ==
    /\ nEnq < MaxTasks
    /\ commands' = PushBack(commands, [id |-> nEnq + 1, kind |-> kind, url |-> url])
    /\ nEnq' = nEnq + 1
    /\ probe' = NoProbe
    /\ UNCHANGED <<nonQueueVars, limit, permits, pc, results, handles, joined, cur, ret, units,
                   nDeq, deqLog, execCount, runStart>>

\* pending_count
PendingCount ==
    /\ probe' = [op |-> "pending_count", count |-> Len(commands), empty |-> FALSE]
    /\ UNCHANGED <<nonQueueVars, limit, commands, permits, pc, results, handles, joined, cur, ret,
                   units, nEnq, nDeq, deqLog, execCount, runStart>>

\* is_empty
IsEmpty ==
    /\ probe' = [op |-> "is_empty", count |-> 0, empty |-> (Len(commands) = 0)]
    /\ UNCHANGED <<nonQueueVars, limit, commands, permits, pc, results, handles, joined, cur, ret,
                   units, nEnq, nDeq, deqLog, execCount, runStart>>

----------------------------------------------------------------------------
(***************************************************************************)
(* execute_all                                                             *)
(***************************************************************************)
\* Entry: let mut results = Vec::new(); let mut handles = Vec::new();
ExecuteAllBegin ==
    /\ pc = "idle"
    /\ pc' = "all_loop"
    /\ results' = <<>>
    /\ handles' = <<>>
    /\ joined' = 0
    /\ ret' = NoReturn
    /\ runStart' = [deq |-> nDeq, enq |-> nEnq]
    /\ probe' = NoProbe
    /\ UNCHANGED <<nonQueueVars, limit, commands, permits, cur, units, nEnq, nDeq, deqLog,
                   execCount>>

\* Mutant of ExecuteAllSpawn: the permit is acquired in the dequeue loop, before the
\* unit is dispatched, so the loop waits while the pool is exhausted.
ExecuteAllSpawnAcquiring ==
    /\ pc = "all_loop"
    /\ commands # <<>>
    /\ permits > 0
    /\ permits' = permits - 1
    /\ LET cmd == Head(commands) IN
        /\ commands' = Tail(commands)
        /\ units' = Append(units, [cmd |-> cmd, st |-> "running"])
        /\ handles' = Append(handles, Len(units) + 1)
        /\ nDeq' = nDeq + 1
        /\ deqLog' = Append(deqLog, cmd.id)
    /\ probe' = NoProbe
    /\ UNCHANGED <<nonQueueVars, limit, pc, results, joined, cur, ret, nEnq, execCount, runStart>>

\* One turn of the loop with Some(cmd): pop_front, tokio::spawn, handles.push.
\* The spawned unit starts before its semaphore.acquire().
ExecuteAllSpawn ==
    /\ pc = "all_loop"
    /\ commands # <<>>
    /\ LET cmd == PopFront(commands).item IN
        /\ commands' = PopFront(commands).rest
        /\ units' = Append(units, [cmd |-> cmd, st |-> "waiting"])
        /\ handles' = Append(handles, Len(units) + 1)
        /\ nDeq' = nDeq + 1
        /\ deqLog' = Append(deqLog, cmd.id)
    /\ probe' = NoProbe
    /\ UNCHANGED <<nonQueueVars, limit, permits, pc, results, joined, cur, ret, nEnq, execCount,
                   runStart>>

\* Mutant of ExecuteAllBreak: the loop also ends once one command was dispatched.
ExecuteAllBreakEarly ==
    /\ pc = "all_loop"
    /\ (commands = <<>> \/ handles # <<>>)
    /\ pc' = "all_join"
    /\ probe' = NoProbe
    /\ UNCHANGED <<nonQueueVars, limit, commands, permits, results, handles, joined, cur, ret,
                   units,
                   nEnq, nDeq, deqLog, execCount, runStart>>

\* The loop's turn with None: break.
ExecuteAllBreak ==
    /\ pc = "all_loop"
    /\ commands = <<>>
    /\ pc' = "all_join"
    /\ probe' = NoProbe
    /\ UNCHANGED <<nonQueueVars, limit, commands, permits, results, handles, joined, cur, ret,
                   units,
                   nEnq, nDeq, deqLog, execCount, runStart>>

\* Mutant of CanAcquire: acquire never waits.
CanAcquireAlways(p) == TRUE

\* Mutant of CanAcquire: acquire waits until a second permit is available.
CanAcquireSpare(p) == p > 1

\* Semaphore::acquire completes only when a permit is available.
CanAcquire(p) == p > 0

\* The spawned unit: let _permit = semaphore.acquire().await
TaskAcquire(t) ==
    /\ units[t].st = "waiting"
    /\ CanAcquire(permits)
    /\ permits' = permits - 1
    /\ units' = [units EXCEPT ![t].st = "running"]
    /\ probe' = NoProbe
    /\ UNCHANGED <<nonQueueVars, limit, commands, pc, results, handles, joined, cur, ret,
                   nEnq, nDeq, deqLog, execCount, runStart>>

\* Mutant of ReleasePermit: a unit that panics keeps its permit.
ReleasePermitUnlessPanic(p, outcome) == IF outcome = "panicked" THEN p ELSE p + 1

\* The permits available once a unit's _permit guard is dropped.
ReleasePermit(p, outcome) == p + 1

\* The spawned unit, holding its permit: observer.on_command_started(&*cmd), which
\* returns or panics, then Ok(placeholder); _permit is dropped on both ways out.
TaskRun(t, outcome) ==
    /\ units[t].st = "running"
    /\ units' = [units EXCEPT ![t].st = outcome]
    /\ permits' = ReleasePermit(permits, outcome)
    /\ probe' = NoProbe
    /\ UNCHANGED <<nonQueueVars, limit, commands, pc, results, handles, joined, cur, ret,
                   nEnq, nDeq, deqLog, execCount, runStart>>

\* Mutant of ExecuteAllJoin: continue-and-collect, a failed unit is skipped and the
\* remaining handles are still awaited.
ExecuteAllJoinCollect ==
    /\ pc = "all_join"
    /\ joined < Len(handles)
    /\ LET u == units[handles[joined + 1]] IN
        /\ u.st \in {"ok", "panicked"}
        /\ joined' = joined + 1
        /\ results' = IF u.st = "ok" THEN Append(results, PlaceholderResult(u.cmd))
                                      ELSE results
    /\ probe' = NoProbe
    /\ UNCHANGED <<nonQueueVars, limit, commands, permits, pc, ret, handles, cur, units,
                   nEnq, nDeq, deqLog, execCount, runStart>>

\* for handle in handles { match handle.await ... }: the next handle's unit has
\* ended; Ok(Ok(r)) pushes r, Err(JoinError) returns ExecutionError at once.
ExecuteAllJoin ==
    /\ pc = "all_join"
    /\ joined < Len(handles)
    /\ LET u == units[handles[joined + 1]] IN
        /\ u.st \in {"ok", "panicked"}
        /\ joined' = joined + 1
        /\ IF u.st = "ok"
           THEN /\ results' = Append(results, PlaceholderResult(u.cmd))
                /\ UNCHANGED <<nonQueueVars, pc, ret>>
           ELSE /\ pc' = "idle"
                /\ ret' = ReturnErr("execute_all", "ExecutionError", u.cmd.id)
                /\ UNCHANGED results
    /\ probe' = NoProbe
    /\ UNCHANGED <<nonQueueVars, limit, commands, permits, handles, cur, units,
                   nEnq, nDeq, deqLog, execCount, runStart>>

\* Ok(results)
ExecuteAllReturn ==
    /\ pc = "all_join"
    /\ joined = Len(handles)
    /\ pc' = "idle"
    /\ ret' = ReturnOk("execute_all", results)
    /\ probe' = NoProbe
    /\ UNCHANGED <<nonQueueVars, limit, commands, permits, results, handles, joined, cur, units,
                   nEnq, nDeq, deqLog, execCount, runStart>>

\* The caller gives up waiting (an external timeout around the call): the future
\* of execute_all is dropped at handle.await, and with it the JoinHandles, which
\* detaches the spawned units: they run on.
ExecuteAllDropped ==
    /\ pc = "all_join"
    /\ joined < Len(handles)
    /\ pc' = "idle"
    /\ ret' = Dropped("execute_all")
    /\ probe' = NoProbe
    /\ UNCHANGED <<nonQueueVars, limit, commands, permits, results, handles, joined, cur, units,
                   nEnq, nDeq, deqLog, execCount, runStart>>

----------------------------------------------------------------------------
(***************************************************************************)
(* execute_sequential                                                      *)
(***************************************************************************)
\* Entry: let mut results = Vec::new();
ExecuteSequentialBegin ==
    /\ pc = "idle"
    /\ pc' = "seq_loop"
    /\ results' = <<>>
    /\ handles' = <<>>
    /\ joined' = 0
    /\ ret' = NoReturn
    /\ runStart' = [deq |-> nDeq, enq |-> nEnq]
    /\ probe' = NoProbe
    /\ UNCHANGED <<nonQueueVars, limit, commands, permits, cur, units, nEnq, nDeq, deqLog,
                   execCount>>

\* The loop's turn with Some(cmd): pop_front, then cmd.execute(...) is awaited.
ExecuteSequentialPop ==
    /\ pc = "seq_loop"
    /\ commands # <<>>
    /\ LET cmd == PopFront(commands).item IN
        /\ commands' = PopFront(commands).rest
        /\ cur' = cmd
        /\ nDeq' = nDeq + 1
        /\ deqLog' = Append(deqLog, cmd.id)
    /\ pc' = "seq_exec"
    /\ probe' = NoProbe
    /\ UNCHANGED <<nonQueueVars, limit, permits, results, handles, joined, ret, units, nEnq,
                   execCount, runStart>>

\* Mutant of ExecuteSequentialExecute: an error of execute is dropped and the loop
\* goes on with the next command.
ExecuteSequentialExecuteContinue(err) ==
    /\ pc = "seq_exec"
    /\ execCount' = [execCount EXCEPT ![cur.id] = @ + 1]
    /\ results' = IF err = "" THEN Append(results, ExecuteResult(cur)) ELSE results
    /\ pc' = "seq_loop"
    /\ cur' = NoCommand
    /\ probe' = NoProbe
    /\ UNCHANGED <<nonQueueVars, limit, commands, permits, handles, joined, units, nEnq, nDeq,
                   deqLog, runStart, ret>>

\* let result = cmd.execute(repository, output_dir).await?; results.push(result);
\* `err` is "" when execute returns Ok, else the error it returns.
ExecuteSequentialExecute(err) ==
    /\ pc = "seq_exec"
    /\ execCount' = [execCount EXCEPT ![cur.id] = @ + 1]
    /\ IF err = ""
       THEN /\ results' = Append(results, ExecuteResult(cur))
            /\ pc' = "seq_loop"
            /\ UNCHANGED ret
       ELSE /\ pc' = "idle"
            /\ ret' = ReturnErr("execute_sequential", err, cur.id)
            /\ UNCHANGED results
    /\ cur' = NoCommand
    /\ probe' = NoProbe
    /\ UNCHANGED <<nonQueueVars, limit, commands, permits, handles, joined, units, nEnq, nDeq,
                   deqLog, runStart>>

\* The loop's turn with None: break; Ok(results)
ExecuteSequentialReturn ==
    /\ pc = "seq_loop"
    /\ commands = <<>>
    /\ pc' = "idle"
    /\ ret' = ReturnOk("execute_sequential", results)
    /\ probe' = NoProbe
    /\ UNCHANGED <<nonQueueVars, limit, commands, permits, results, handles, joined, cur, units,
                   nEnq, nDeq, deqLog, execCount, runStart>>

----------------------------------------------------------------------------
(***************************************************************************)
(* Several calls of execute_all / execute_sequential on one queue: each    *)
(* call's dequeue loop. The units a call of execute_all spawns are those   *)
(* of the section above; here a call is followed through its pop_front     *)
(* turns only.                                                             *)
(***************************************************************************)
\* The callers sharing the queue (&self).
Runners == {1, 2}

RunInit ==
    /\ runPc = [r \in Runners |-> "idle"]
    /\ runTaken = [r \in Runners |-> <<>>]

\* Entry of execute_all or execute_sequential by runner r.
RunBegin(r, mode) ==
    /\ runPc[r] = "idle"
    /\ runPc' = [runPc EXCEPT ![r] = IF mode = "all" THEN "all_loop" ELSE "seq_loop"]
    /\ UNCHANGED <<queueVars, nonRunVars, runTaken>>

\* Mutant of RunPop: the front command is read under the lock and removed under a
\* second lock scope, so two runners can read the same command.
RunPopPeek(r) ==
    /\ runPc[r] \in {"all_loop", "seq_loop"}
    /\ commands # <<>>
    /\ LET cmd == Head(commands) IN
        /\ \/ commands' = Tail(commands)
           \/ commands' = commands
        /\ runTaken' = [runTaken EXCEPT ![r] = Append(@, cmd.id)]
        /\ nDeq' = nDeq + 1
        /\ deqLog' = Append(deqLog, cmd.id)
    /\ runPc' = [runPc EXCEPT ![r] = IF @ = "seq_loop" THEN "seq_exec" ELSE @]
    /\ Len(deqLog) <= MaxTasks
    /\ UNCHANGED <<nonRunVars, limit, permits, pc, results, handles, joined, cur, ret, units,
                   probe, nEnq, execCount, runStart>>

\* One turn of a loop with Some(cmd): { commands.lock().await; commands.pop_front() }.
\* execute_all spawns the unit and loops; execute_sequential awaits cmd.execute.
RunPop(r) ==
    /\ runPc[r] \in {"all_loop", "seq_loop"}
    /\ commands # <<>>
    /\ LET cmd == PopFront(commands).item IN
        /\ commands' = PopFront(commands).rest
        /\ runTaken' = [runTaken EXCEPT ![r] = Append(@, cmd.id)]
        /\ nDeq' = nDeq + 1
        /\ deqLog' = Append(deqLog, cmd.id)
    /\ runPc' = [runPc EXCEPT ![r] = IF @ = "seq_loop" THEN "seq_exec" ELSE @]
    /\ UNCHANGED <<nonRunVars, limit, permits, pc, results, handles, joined, cur, ret, units,
                   probe, nEnq, execCount, runStart>>

\* execute_sequential: cmd.execute(...).await? returned; Ok goes on with the loop,
\* Err returns from the call.
RunExecute(r, err) ==
    /\ runPc[r] = "seq_exec"
    /\ runPc' = [runPc EXCEPT ![r] = IF err = "" THEN "seq_loop" ELSE "idle"]
    /\ UNCHANGED <<queueVars, nonRunVars, runTaken>>

\* A loop's turn with None: break, and the call goes on to return.
RunBreak(r) ==
    /\ runPc[r] \in {"all_loop", "seq_loop"}
    /\ commands = <<>>
    /\ runPc' = [runPc EXCEPT ![r] = "idle"]
    /\ UNCHANGED <<queueVars, nonRunVars, runTaken>>

----------------------------------------------------------------------------
(***************************************************************************)
(* MemoryCacheService (services/cache_service.rs)                          *)
(***************************************************************************)
\* Duration::as_secs: whole seconds of a duration given in milliseconds.
as_secs(d) == d \div MsPerSec

\* Option<DateTime>
NoTime == [some |-> FALSE, at |-> 0]
SomeTime(t) == [some |-> TRUE, at |-> t]

\* Option<CommandResult>
NoResult == [kind |-> "none", url |-> "", paths |-> <<>>]
NoneResult == [some |-> FALSE, value |-> NoResult]
SomeResult(r) == [some |-> TRUE, value |-> r]

\* The result a caller stores for (data_type, url, format): that of the scrape or
\* crawl command, saved under output directory number v.
StoredResult(data_type, url, format, v) ==
    LET path == "out" \o ToString(v) \o "/" \o url \o "." \o format IN
    IF data_type = "scrape" THEN ScrapeResult(url, path) ELSE CrawlResult(url, <<path>>)

\* The CacheData variant an entry stored by store_<data_type>_result wraps.
Variant(data_type) == IF data_type = "scrape" THEN "ScrapeResult" ELSE "CrawlResult"

\* Mutant of generate_key: the format is left out of the key.
generate_keyNoFormat(url, format, data_type) == data_type \o ":" \o url

\* generate_key: format!("{}:{}:{}", data_type, url, format)
generate_key(url, format, data_type) == data_type \o ":" \o url \o ":" \o format

\* Every key the callers of the model can produce.
AllKeys == {generate_key(tg[1], tg[2], t) : tg \in CacheTargets, t \in DataTypes}

\* A key with no entry in the HashMap.
NoEntry == [present |-> FALSE, variant |-> "none", result |-> NoResult, created_at |-> 0,
            expires_at |-> NoTime, access_count |-> 0, last_accessed |-> 0]

\* cache.len() and cache.values().filter(|e| matches!(e.data, <variant>)).count()
CacheLen(m) == Cardinality({k \in AllKeys : m[k].present})
VariantCount(m, variant) == Cardinality({k \in AllKeys : m[k].present /\ m[k].variant = variant})

\* RECURSIVE greatest common divisor, to keep a ratio in lowest terms.
RECURSIVE Gcd(_, _)
Gcd(a, b) == IF b = 0 THEN a ELSE Gcd(b, a % b)

\* An f64 ratio, kept exact as a fraction in lowest terms.
Ratio(n, d) == [num |-> n \div Gcd(n, d), den |-> d \div Gcd(n, d)]

\* CacheStatistics::calculate_hit_rate
calculate_hit_rate(stats) ==
    LET total_requests == stats.cache_hits + stats.cache_misses IN
    IF total_requests = 0 THEN Ratio(0, 1)
    ELSE Ratio(stats.cache_hits * 100, total_requests)

\* CacheStatistics::default()
DefaultStatistics ==
    [total_entries |-> 0, scrape_entries |-> 0, crawl_entries |-> 0, cache_hits |-> 0,
     cache_misses |-> 0, total_size_bytes |-> 0, hit_rate |-> Ratio(0, 1)]

\* Mutant of ExpiresAt: every entry gets an expiry time, also with a ttl of zero.
ExpiresAtAlways(t, d) == SomeTime(t + d)

\* expires_at of an entry stored at time t under config.ttl = d (in store_*_result).
ExpiresAt(t, d) == IF as_secs(d) > 0 THEN SomeTime(t + d) ELSE NoTime

\* is_expired, evaluated at time t
is_expired(entry, t) ==
    IF entry.expires_at.some THEN t > entry.expires_at.at ELSE FALSE

\* Mutant of update_access: the time of the access is recorded, the count is not.
update_accessTimeOnly(entry, t) == [entry EXCEPT !.last_accessed = t]

\* update_access, at time t
update_access(entry, t) ==
    [entry EXCEPT !.access_count = @ + 1, !.last_accessed = t]

\* What a call of client c has in hand between its two lock scopes, what a call
\* returns, and the record of the last call that took the cache write lock.
NoLocal == [key |-> "", call |-> <<>>, data_type |-> "", branch |-> "none", cache_len |-> 0,
            count |-> 0, result |-> NoneResult, removed |-> 0]
NoCacheReturn == [op |-> "none", key |-> "", call |-> <<>>, result |-> NoneResult,
                  flag |-> FALSE, count |-> 0, stats |-> DefaultStatistics]
NoCacheOp == [op |-> "none", key |-> "", result |-> NoResult]

\* MemoryCacheService::new, with the ttl of its CacheConfig
CacheInit ==
    /\ ttl \in TtlChoices
    /\ now = 0
    /\ cache = [k \in AllKeys |-> NoEntry]
    /\ statistics = DefaultStatistics
    /\ cachePc = [c \in CacheClients |-> "idle"]
    /\ cacheLocal = [c \in CacheClients |-> NoLocal]
    /\ cacheRet = NoCacheReturn
    /\ lastCacheOp = NoCacheOp
    /\ lastPut = [cl \in CacheCalls |-> NoResult]
    /\ nCacheOps = 0
    /\ nTicks = 0

\* Time passes.
Tick ==
    /\ nTicks < MaxTicks
    /\ nTicks' = nTicks + 1
    /\ now' = now + TickMs
    /\ cacheRet' = NoCacheReturn
    /\ UNCHANGED <<nonCacheVars, ttl, lastPut, cache, statistics, cachePc, cacheLocal, lastCacheOp,
                   nCacheOps>>

\* Client c may start a call: it has none in progress. The clients are
\* interchangeable, so a call is given to the first one that is free.
CanStart(c) ==
    /\ cachePc[c] = "idle"
    /\ \A d \in CacheClients : d < c => cachePc[d] # "idle"

\* A call that writes the cache may start.
CanStartWrite(c) == CanStart(c) /\ nCacheOps < MaxCacheOps

\* Mutant of Insert: an entry already under the key is kept.
InsertIfAbsent(m, key, entry) == IF m[key].present THEN m ELSE [m EXCEPT ![key] = entry]

\* HashMap::insert: the entry replaces whatever the map holds under the key.
Insert(m, key, entry) == [m EXCEPT ![key] = entry]

\* Mutant of Store: the entry becomes visible half-written, its metadata and variant
\* set and its data not yet.
StoreTorn(c, data_type, url, format, result) ==
    /\ CanStartWrite(c)
    /\ LET key == generate_key(url, format, data_type)
           entry == [present |-> TRUE, variant |-> Variant(data_type), result |-> NoResult,
                     created_at |-> now, expires_at |-> ExpiresAt(now, ttl),
                     access_count |-> 1, last_accessed |-> now]
       IN
        /\ cache' = Insert(cache, key, entry)
        /\ statistics' = [statistics EXCEPT !.total_entries = CacheLen(cache')]
        /\ cacheRet' = [NoCacheReturn EXCEPT !.op = "store", !.key = key]
        /\ lastCacheOp' = [op |-> "store", key |-> key, result |-> result]
    /\ nCacheOps' = nCacheOps + 1
    /\ lastPut' = [lastPut EXCEPT ![<<data_type, url, format>>] = result]
    /\ UNCHANGED <<ttl, now, cachePc, cacheLocal, nTicks>>

\* store_scrape_result / store_crawl_result: both locks are held to the end, so the
\* call is one step.
Store(c, data_type, url, format, result) ==
    /\ CanStartWrite(c)
    /\ LET key == generate_key(url, format, data_type)
           entry == [present |-> TRUE, variant |-> Variant(data_type), result |-> result,
                     created_at |-> now, expires_at |-> ExpiresAt(now, ttl),
                     access_count |-> 1, last_accessed |-> now]
           inserted == Insert(cache, key, entry)
       IN
        /\ cache' = inserted
        /\ statistics' =
            IF data_type = "scrape"
            THEN [statistics EXCEPT !.total_entries = CacheLen(inserted),
                                    !.scrape_entries = @ + 1]
            ELSE [statistics EXCEPT !.total_entries = CacheLen(inserted),
                                    !.crawl_entries = @ + 1]
        /\ cacheRet' = [NoCacheReturn EXCEPT !.op = "store", !.key = key]
        /\ lastCacheOp' = [op |-> "store", key |-> key, result |-> result]
    /\ nCacheOps' = nCacheOps + 1
    /\ lastPut' = [lastPut EXCEPT ![<<data_type, url, format>>] = result]
    /\ UNCHANGED <<ttl, now, cachePc, cacheLocal, nTicks>>

\* A call of store_scrape_result / store_crawl_result by a client of the cache.
store_scrape_result(c, url, format, result) ==
    Store(c, "scrape", url, format, result) /\ UNCHANGED nonCacheVars
store_crawl_result(c, url, format, result) ==
    Store(c, "crawl", url, format, result) /\ UNCHANGED nonCacheVars

\* get_scrape_result / get_crawl_result, the scope of the cache write lock: look the
\* key up, remove an expired entry or update the access data of a live one.
GetLookup(c, data_type, url, format) ==
    /\ CanStartWrite(c)
    /\ LET key == generate_key(url, format, data_type)
           entry == cache[key]
       IN
        /\ IF entry.present /\ is_expired(entry, now)
           THEN LET removed == [cache EXCEPT ![key] = NoEntry] IN
                /\ cache' = removed
                /\ cacheLocal' = [cacheLocal EXCEPT ![c] =
                        [NoLocal EXCEPT !.key = key, !.data_type = data_type,
                                        !.call = <<data_type, url, format>>,
                                        !.branch = "expired",
                                        !.cache_len = CacheLen(removed),
                                        !.count = VariantCount(removed, Variant(data_type))]]
           ELSE IF entry.present
           THEN /\ cache' = [cache EXCEPT ![key] = update_access(entry, now)]
                /\ cacheLocal' = [cacheLocal EXCEPT ![c] =
                        [NoLocal EXCEPT !.key = key, !.data_type = data_type,
                                        !.call = <<data_type, url, format>>,
                                        !.branch = "hit",
                                        !.result = IF entry.variant = Variant(data_type)
                                                   THEN SomeResult(entry.result)
                                                   ELSE NoneResult]]
           ELSE /\ cache' = cache
                /\ cacheLocal' = [cacheLocal EXCEPT ![c] =
                        [NoLocal EXCEPT !.key = key, !.data_type = data_type,
                                        !.call = <<data_type, url, format>>,
                                        !.branch = "absent"]]
        /\ lastCacheOp' = [op |-> "get", key |-> key, result |-> NoResult]
    /\ cachePc' = [cachePc EXCEPT ![c] = "get_stats"]
    /\ nCacheOps' = nCacheOps + 1
    /\ cacheRet' = NoCacheReturn
    /\ UNCHANGED <<ttl, lastPut, now, statistics, nTicks>>

\* get_scrape_result / get_crawl_result, the scope of the statistics write lock, after
\* the cache lock was dropped: count the hit or the miss and return.
GetCount(c) ==
    /\ cachePc[c] = "get_stats"
    /\ LET l == cacheLocal[c] IN
        /\ statistics' =
            IF l.branch = "expired"
            THEN IF l.data_type = "scrape"
                 THEN [statistics EXCEPT !.cache_misses = @ + 1,
                                         !.total_entries = l.cache_len,
                                         !.scrape_entries = l.count]
                 ELSE [statistics EXCEPT !.cache_misses = @ + 1,
                                         !.total_entries = l.cache_len,
                                         !.crawl_entries = l.count]
            ELSE IF l.branch = "hit"
            THEN LET counted == [statistics EXCEPT !.cache_hits = @ + 1] IN
                 [counted EXCEPT !.hit_rate = calculate_hit_rate(counted)]
            ELSE LET counted == [statistics EXCEPT !.cache_misses = @ + 1] IN
                 [counted EXCEPT !.hit_rate = calculate_hit_rate(counted)]
        /\ cacheRet' = [NoCacheReturn EXCEPT !.op = "get", !.key = l.key, !.call = l.call,
                                              !.result = l.result]
    /\ cachePc' = [cachePc EXCEPT ![c] = "idle"]
    /\ cacheLocal' = [cacheLocal EXCEPT ![c] = NoLocal]
    /\ UNCHANGED <<ttl, lastPut, now, cache, lastCacheOp, nCacheOps, nTicks>>

\* A call of get_scrape_result / get_crawl_result by a client of the cache, up to
\* the end of its cache lock scope, and its return.
get_scrape_result(c, url, format) ==
    GetLookup(c, "scrape", url, format) /\ UNCHANGED nonCacheVars
get_crawl_result(c, url, format) ==
    GetLookup(c, "crawl", url, format) /\ UNCHANGED nonCacheVars
GetReturn(c) == GetCount(c) /\ UNCHANGED nonCacheVars

\* Mutant of Exists: an expired entry the probe comes across is removed, as get
\* does.
ExistsRemoving(c, url, format) ==
    /\ CanStart(c)
    /\ LET scrape_key == generate_key(url, format, "scrape")
           crawl_key == generate_key(url, format, "crawl")
           scrape_exists == cache[scrape_key].present /\ ~is_expired(cache[scrape_key], now)
           crawl_exists == cache[crawl_key].present /\ ~is_expired(cache[crawl_key], now)
       IN
        /\ cacheRet' = [NoCacheReturn EXCEPT !.op = "exists",
                                             !.key = generate_key(url, format, "any"),
                                             !.flag = (scrape_exists \/ crawl_exists)]
        /\ cache' = [k \in AllKeys |->
                        IF k \in {scrape_key, crawl_key} /\ cache[k].present
                                                         /\ is_expired(cache[k], now)
                        THEN NoEntry ELSE cache[k]]
    /\ UNCHANGED <<nonCacheVars, ttl, lastPut, now, statistics, cachePc, cacheLocal, lastCacheOp,
                   nCacheOps, nTicks>>

\* exists: under the cache read lock, is there a live scrape or crawl entry
Exists(c, url, format) ==
    /\ CanStart(c)
    /\ LET scrape_entry == cache[generate_key(url, format, "scrape")]
           crawl_entry == cache[generate_key(url, format, "crawl")]
           scrape_exists == scrape_entry.present /\ ~is_expired(scrape_entry, now)
           crawl_exists == crawl_entry.present /\ ~is_expired(crawl_entry, now)
       IN
        cacheRet' = [NoCacheReturn EXCEPT !.op = "exists",
                                          !.key = generate_key(url, format, "any"),
                                          !.flag = (scrape_exists \/ crawl_exists)]
    /\ UNCHANGED <<nonCacheVars, ttl, lastPut, now, cache, statistics, cachePc, cacheLocal,
                   lastCacheOp,
                   nCacheOps, nTicks>>

\* clear: both write locks are held, so the call is one step.
Clear(c) ==
    /\ CanStartWrite(c)
    /\ cache' = [k \in AllKeys |-> NoEntry]
    /\ statistics' = DefaultStatistics
    /\ cacheRet' = [NoCacheReturn EXCEPT !.op = "clear"]
    /\ lastCacheOp' = [op |-> "clear", key |-> "", result |-> NoResult]
    /\ nCacheOps' = nCacheOps + 1
    /\ UNCHANGED <<nonCacheVars, ttl, lastPut, now, cachePc, cacheLocal, nTicks>>

\* Mutant of CleanRemove: the pass removes every entry, expired or not.
CleanRemoveAll(c) ==
    /\ CanStartWrite(c)
    /\ cache' = [k \in AllKeys |-> NoEntry]
    /\ cacheLocal' = [cacheLocal EXCEPT ![c] =
            [NoLocal EXCEPT !.branch = "clean", !.removed = CacheLen(cache)]]
    /\ cachePc' = [cachePc EXCEPT ![c] = "clean_stats"]
    /\ lastCacheOp' = [op |-> "clean", key |-> "", result |-> NoResult]
    /\ nCacheOps' = nCacheOps + 1
    /\ cacheRet' = NoCacheReturn
    /\ UNCHANGED <<nonCacheVars, ttl, lastPut, now, statistics, nTicks>>

\* clean_expired, first lock scope: remove_expired_entries, under the cache write lock
CleanRemove(c) ==
    /\ CanStartWrite(c)
    /\ LET retained == [k \in AllKeys |->
                          IF cache[k].present /\ is_expired(cache[k], now)
                          THEN NoEntry ELSE cache[k]]
       IN
        /\ cache' = retained
        /\ cacheLocal' = [cacheLocal EXCEPT ![c] =
                [NoLocal EXCEPT !.branch = "clean",
                                !.removed = CacheLen(cache) - CacheLen(retained)]]
    /\ cachePc' = [cachePc EXCEPT ![c] = "clean_stats"]
    /\ lastCacheOp' = [op |-> "clean", key |-> "", result |-> NoResult]
    /\ nCacheOps' = nCacheOps + 1
    /\ cacheRet' = NoCacheReturn
    /\ UNCHANGED <<nonCacheVars, ttl, lastPut, now, statistics, nTicks>>

\* clean_expired, second lock scope: the entry counts are taken again from the cache,
\* under the cache read lock and the statistics write lock.
CleanCount(c) ==
    /\ cachePc[c] = "clean_stats"
    /\ statistics' = [statistics EXCEPT
            !.total_entries = CacheLen(cache),
            !.scrape_entries = VariantCount(cache, "ScrapeResult"),
            !.crawl_entries = VariantCount(cache, "CrawlResult")]
    /\ cacheRet' = [NoCacheReturn EXCEPT !.op = "clean", !.count = cacheLocal[c].removed]
    /\ cachePc' = [cachePc EXCEPT ![c] = "idle"]
    /\ cacheLocal' = [cacheLocal EXCEPT ![c] = NoLocal]
    /\ UNCHANGED <<nonCacheVars, ttl, lastPut, now, cache, lastCacheOp, nCacheOps, nTicks>>

\* Mutant of GetStatistics: the stored statistics are returned as they are.
GetStatisticsStored(c) ==
    /\ CanStart(c)
    /\ cacheRet' = [NoCacheReturn EXCEPT !.op = "get_statistics", !.stats = statistics]
    /\ UNCHANGED <<nonCacheVars, ttl, lastPut, now, cache, statistics, cachePc, cacheLocal,
                   lastCacheOp,
                   nCacheOps, nTicks>>

\* get_statistics: a clone of the statistics with the entry counts taken from the
\* cache, under both read locks.
GetStatistics(c) ==
    /\ CanStart(c)
    /\ cacheRet' = [NoCacheReturn EXCEPT !.op = "get_statistics", !.stats =
            [statistics EXCEPT
                !.total_entries = CacheLen(cache),
                !.scrape_entries = VariantCount(cache, "ScrapeResult"),
                !.crawl_entries = VariantCount(cache, "CrawlResult")]]
    /\ UNCHANGED <<nonCacheVars, ttl, lastPut, now, cache, statistics, cachePc, cacheLocal,
                   lastCacheOp,
                   nCacheOps, nTicks>>

----------------------------------------------------------------------------
(***************************************************************************)
(* DefaultProgressService (services/progress_service.rs)                   *)
(***************************************************************************)
\* The four notify_* methods, by the event they publish.
CountingMethods == {"started", "completed", "failed"}
NotifyMethods == CountingMethods \cup {"progress"}

\* TaskStatistics::default(), the fields the service maintains.
DefaultTaskStatistics ==
    [total_tasks |-> 0, completed_tasks |-> 0, failed_tasks |-> 0,
     scrape_tasks |-> 0, crawl_tasks |-> 0]

\* The event a notify_* call hands to the observers; seq numbers the calls.
NotifyEvent(seq, method, url, task_type, detail) ==
    [seq |-> seq, method |-> method, url |-> url, task_type |-> task_type,
     detail |-> detail]
NoEvent == NotifyEvent(0, "none", "", "", "")
IdleNotify == [phase |-> "idle", event |-> NoEvent]

\* No get_statistics has returned since the service last changed.
NoSnapshot == [taken |-> FALSE, stats |-> DefaultTaskStatistics]

NoCounts == [m \in NotifyMethods |-> 0]
\* Calls received by the service so far, over all methods.
Received == notified.received["started"] + notified.received["completed"]
            + notified.received["failed"] + notified.received["progress"]

\* Mutant of CountTask: the counters are left to the observer callbacks.
CountTaskDeferred(stats, method, task_type) == stats

\* The statistics lock scope of notify_task_started / _completed / _failed.
CountTask(stats, method, task_type) ==
    CASE method = "started" ->
            [stats EXCEPT !.total_tasks = @ + 1,
                          !.scrape_tasks = IF task_type = "scrape" THEN @ + 1 ELSE @,
                          !.crawl_tasks = IF task_type = "crawl" THEN @ + 1 ELSE @]
      [] method = "completed" -> [stats EXCEPT !.completed_tasks = @ + 1]
      [] method = "failed" -> [stats EXCEPT !.failed_tasks = @ + 1]
      [] OTHER -> stats

\* for observer in observers.values() { tokio::spawn(..) }: one callback for each
\* observer registered at that moment.
SpawnCallbacks(pending, obs, event) ==
    pending \cup {[observer |-> o, event |-> event] : o \in obs}

\* DefaultProgressService::new
ProgressInit ==
    /\ taskStatistics = DefaultTaskStatistics
    /\ observers = {}
    /\ notifyPc = [c \in NotifyCallers |-> IdleNotify]
    /\ spawned = {}
    /\ delivered = [o \in AllObservers |-> <<>>]
    /\ snapshot = NoSnapshot
    /\ notified = [received |-> NoCounts, returned |-> NoCounts]

\* A caller starts a call.
CanNotify(c) ==
    /\ notifyPc[c].phase = "idle"
    /\ Received < MaxNotifies

\* notify_task_started / notify_task_completed / notify_task_failed, up to the end
\* of the statistics lock scope.
NotifyCount(c, method, url, task_type, detail) ==
    /\ CanNotify(c)
    /\ method \in CountingMethods
    /\ taskStatistics' = CountTask(taskStatistics, method, task_type)
    /\ notifyPc' = [notifyPc EXCEPT ![c] =
                        [phase |-> "dispatch",
                         event |-> NotifyEvent(Received + 1, method, url, task_type,
                                               detail)]]
    /\ notified' = [notified EXCEPT !.received[method] = @ + 1]
    /\ snapshot' = NoSnapshot
    /\ UNCHANGED <<observers, spawned, delivered>>

notify_task_started(c, url, task_type) ==
    NotifyCount(c, "started", url, task_type, "") /\ UNCHANGED nonProgressVars
notify_task_completed(c, url, task_type) ==
    NotifyCount(c, "completed", url, task_type, "") /\ UNCHANGED nonProgressVars
notify_task_failed(c, url, task_type, error) ==
    NotifyCount(c, "failed", url, task_type, error) /\ UNCHANGED nonProgressVars

\* Mutant of NotifyDispatch: each callback is awaited in the loop, so the call
\* returns only when every registered observer's callback returns.
NotifyDispatchAwaiting(c) ==
    /\ notifyPc[c].phase = "dispatch"
    /\ StuckObserver \notin observers
    /\ spawned' = SpawnCallbacks(spawned, observers, notifyPc[c].event)
    /\ notifyPc' = [notifyPc EXCEPT ![c] = IdleNotify]
    /\ notified' = [notified EXCEPT !.returned[notifyPc[c].event.method] = @ + 1]
    /\ snapshot' = NoSnapshot
    /\ UNCHANGED <<nonProgressVars, taskStatistics, observers, delivered>>

\* The observers lock scope of the three calls above, and their return.
NotifyDispatch(c) ==
    /\ notifyPc[c].phase = "dispatch"
    /\ spawned' = SpawnCallbacks(spawned, observers, notifyPc[c].event)
    /\ notifyPc' = [notifyPc EXCEPT ![c] = IdleNotify]
    /\ notified' = [notified EXCEPT !.returned[notifyPc[c].event.method] = @ + 1]
    /\ snapshot' = NoSnapshot
    /\ UNCHANGED <<nonProgressVars, taskStatistics, observers, delivered>>

\* notify_task_progress: no counter, the observers lock scope only.
notify_task_progress(c, url, task_type, progress) ==
    /\ CanNotify(c)
    /\ spawned' = SpawnCallbacks(spawned, observers,
                      NotifyEvent(Received + 1, "progress", url, task_type, progress))
    /\ notified' = [notified EXCEPT !.received["progress"] = @ + 1,
                                    !.returned["progress"] = @ + 1]
    /\ snapshot' = NoSnapshot
    /\ UNCHANGED <<nonProgressVars, taskStatistics, observers, notifyPc, delivered>>

\* A spawned callback runs: observer.on_task_*(..).
ObserverCallback(cb) ==
    /\ cb \in spawned
    /\ spawned' = spawned \ {cb}
    /\ delivered' = [delivered EXCEPT ![cb.observer] = Append(@, cb.event)]
    /\ snapshot' = NoSnapshot
    /\ UNCHANGED <<nonProgressVars, taskStatistics, observers, notifyPc, notified>>

\* register_observer: observers.insert(observer_id, observer)
register_observer(o) ==
    /\ observers' = observers \cup {o}
    /\ snapshot' = NoSnapshot
    /\ UNCHANGED <<nonProgressVars, taskStatistics, notifyPc, spawned, delivered,
                   notified>>

\* unregister_observer: observers.remove(observer_id)
unregister_observer(o) ==
    /\ observers' = observers \ {o}
    /\ snapshot' = NoSnapshot
    /\ UNCHANGED <<nonProgressVars, taskStatistics, notifyPc, spawned, delivered,
                   notified>>

\* get_statistics: self.statistics.read().await.clone()
get_statistics ==
    /\ snapshot' = [taken |-> TRUE, stats |-> taskStatistics]
    /\ UNCHANGED <<nonProgressVars, taskStatistics, observers, notifyPc, spawned,
                   delivered, notified>>

\* No callback hangs.
DeliveryInit == hanging = {}

\* The calls a caller makes for one task, as test_progress_service makes them:
\* started first, then progress, completed or failed. `n` calls were made before.
TaskLifecycle(n) ==
    IF n = 0 THEN {"started"} ELSE {"progress", "completed", "failed"}

ReportStarted(c) ==
    /\ "started" \in TaskLifecycle(Received)
    /\ notify_task_started(c, NotifyTask(c)[1], NotifyTask(c)[2])
ReportProgress(c, p) ==
    /\ "progress" \in TaskLifecycle(Received)
    /\ notify_task_progress(c, NotifyTask(c)[1], NotifyTask(c)[2], p)
ReportCompleted(c) ==
    /\ "completed" \in TaskLifecycle(Received)
    /\ notify_task_completed(c, NotifyTask(c)[1], NotifyTask(c)[2])
ReportFailed(c, e) ==
    /\ "failed" \in TaskLifecycle(Received)
    /\ notify_task_failed(c, NotifyTask(c)[1], NotifyTask(c)[2], e)

\* A spawned callback of a responsive observer runs to its end.
Deliver(cb) ==
    /\ cb.observer # StuckObserver
    /\ ObserverCallback(cb)

\* A spawned callback of the stuck observer starts and never returns: its task
\* stays alive and holds nothing of the service.
CallbackHangs(cb) ==
    /\ cb \in spawned
    /\ cb.observer = StuckObserver
    /\ spawned' = spawned \ {cb}
    /\ hanging' = hanging \cup {cb}
    /\ snapshot' = NoSnapshot
    /\ UNCHANGED <<nonDeliveryVars, taskStatistics, observers, notifyPc, delivered, notified>>

\* A spawned callback of the stuck observer panics: the panic ends its own task,
\* whose JoinHandle was dropped.
CallbackPanics(cb) ==
    /\ cb \in spawned
    /\ cb.observer = StuckObserver
    /\ spawned' = spawned \ {cb}
    /\ snapshot' = NoSnapshot
    /\ UNCHANGED <<nonDeliveryVars, taskStatistics, observers, notifyPc, delivered, notified,
                   hanging>>

\* A whole notify_* call of a caller that nothing runs beside: both lock scopes.
Notify(method, url, task_type, detail) ==
    /\ taskStatistics' = CountTask(taskStatistics, method, task_type)
    /\ spawned' = SpawnCallbacks(spawned, observers,
                      NotifyEvent(Received + 1, method, url, task_type, detail))
    /\ notified' = [notified EXCEPT !.received[method] = @ + 1,
                                    !.returned[method] = @ + 1]
    /\ snapshot' = NoSnapshot
    /\ UNCHANGED <<observers, notifyPc, delivered>>

----------------------------------------------------------------------------
(***************************************************************************)
(* Crawl jobs: FirecrawlClient (api/services/client.rs), CrawlCommand       *)
(* (commands/crawl_command.rs) and the remote API.                          *)
(***************************************************************************)
\* Option<u32>, Option<String>, Option<Vec<ScrapeData>>
NoCount == [some |-> FALSE, value |-> 0]
SomeCount(n) == [some |-> TRUE, value |-> n]
NoText == [some |-> FALSE, value |-> ""]
SomeText(t) == [some |-> TRUE, value |-> t]
NoData == [some |-> FALSE, value |-> <<>>]
SomeData(d) == [some |-> TRUE, value |-> d]
\* Option::unwrap_or / unwrap_or_default / unwrap_or_else
unwrap_or(opt, default) == IF opt.some THEN opt.value ELSE default

\* ScrapeData of a crawled page: one with its url, one without.
Page1 == [url |-> SomeText("a.com/1"), markdown |-> "one"]
Page2 == [url |-> NoText, markdown |-> "two"]
DataChoices == {NoData, SomeData(<<>>), SomeData(<<Page1>>), SomeData(<<Page1, Page2>>)}

\* CrawlStatusResponse
StatusResponse(status, completed, total, data, error) ==
    [status |-> status, completed |-> completed, total |-> total, data |-> data,
     error |-> error]
NoResponse == StatusResponse("", NoCount, NoCount, NoData, NoText)

\* The bodies the remote answers a status request with.
StatusResponses ==
    {StatusResponse("completed", SomeCount(2), SomeCount(2), d, NoText) : d \in DataChoices}
    \cup {StatusResponse("failed", NoCount, NoCount, NoData, e) :
            e \in {NoText} \cup {SomeText(x) : x \in FailReasons}}
    \cup {StatusResponse(st, n[1], n[2], NoData, NoText) :
            st \in OtherStatuses, n \in {<<NoCount, NoCount>>, <<SomeCount(1), SomeCount(2)>>}}

\* How a status request fails: the request is not answered, it is answered with an
\* HTTP error status, or the body does not parse.
PollFailures == {"transport", "http_status", "parse"}

\* What comes of one status request.
PollAnswers ==
    {[fail |-> "", response |-> r] : r \in StatusResponses}
    \cup {[fail |-> f, response |-> NoResponse] : f \in PollFailures}
NoAnswer == [fail |-> "none", response |-> NoResponse]

\* The remote reports the job as neither completed nor failed.
InProgressAnswer(answer) ==
    answer.fail = "" /\ answer.response.status \notin {"completed", "failed"}

\* CrawlState
CrawlState(variant, job_id, status, completed, total, data, error) ==
    [variant |-> variant, job_id |-> job_id, status |-> status, completed |-> completed,
     total |-> total, data |-> data, error |-> error]
NoState == CrawlState("none", "", "", 0, 0, <<>>, "")

\* Mutant of check_crawl_status: the status "started" gives the Started state.
check_crawl_statusStarted(job_id, response) ==
    CASE response.status = "completed" ->
            CrawlState("Completed", job_id, "", 0, 0, unwrap_or(response.data, <<>>), "")
      [] response.status = "failed" ->
            CrawlState("Failed", job_id, "", 0, 0, <<>>,
                       unwrap_or(response.error, "Unknown error"))
      [] response.status = "started" ->
            CrawlState("Started", job_id, "", 0, 0, <<>>, "")
      [] OTHER ->
            CrawlState("InProgress", job_id, response.status,
                       unwrap_or(response.completed, 0), unwrap_or(response.total, 0),
                       <<>>, "")

\* check_crawl_status, the match on the status of a parsed response.
check_crawl_status(job_id, response) ==
    CASE response.status = "completed" ->
            CrawlState("Completed", job_id, "", 0, 0, unwrap_or(response.data, <<>>), "")
      [] response.status = "failed" ->
            CrawlState("Failed", job_id, "", 0, 0, <<>>,
                       unwrap_or(response.error, "Unknown error"))
      [] OTHER ->
            CrawlState("InProgress", job_id, response.status,
                       unwrap_or(response.completed, 0), unwrap_or(response.total, 0),
                       <<>>, "")

\* The message of the error check_crawl_status returns for a failed request.
FailureMessage(fail) ==
    CASE fail = "transport" -> "error sending request"
      [] fail = "http_status" -> "Status check failed"
      [] fail = "parse" -> "error decoding response body"

\* A FirecrawlError, by its variant, and the anyhow::Error of FirecrawlClient::crawl.
Error(kind, message) == [kind |-> kind, message |-> message]
NoError == Error("", "")
\* The variant the errors of `who` come in.
ApiErrorKind(who) == IF who = "crawl" THEN "anyhow::Error" ELSE "ApiError::Other"

\* The error of a status request that failed, and of a job the remote reports failed.
PollError(who, fail) == Error(ApiErrorKind(who), FailureMessage(fail))
\* Mutant of JobFailedError: the reason the remote gave is dropped.
JobFailedErrorNoReason(who, reason) == Error(ApiErrorKind(who), "Crawl failed")
JobFailedError(who, reason) == Error(ApiErrorKind(who), "Crawl failed: " \o reason)

\* What a call returns.
NoPollReturn == [tag |-> "none", results |-> <<>>, error |-> NoError]
PollOk(rs) == [tag |-> "ok", results |-> rs, error |-> NoError]
PollErr(e) == [tag |-> "err", results |-> <<>>, error |-> e]

\* CrawlProgress handed to progress_callback.
CrawlProgress(completed, total, status) ==
    [completed |-> completed, total |-> total, status |-> status]
NoProgress == CrawlProgress(0, 0, "")

\* monitor_crawl_job, the Completed arm: one CrawlResponse for each page.
ConvertPages(data) ==
    [i \in 1..Len(data) |->
        [id |-> "crawl-result-" \o ToString(i - 1),
         url |-> unwrap_or(data[i].url, "unknown"),
         status |-> "completed",
         markdown |-> data[i].markdown]]

\* CrawlRequest::builder().url(url).build(): Ok for every url.
CrawlRequestBuild(url) == [ok |-> TRUE, url |-> url]

\* The paths save_crawl_results returns: one for each page saved.
SavedPages(url, pages) == [i \in 1..Len(pages) |-> SavedPath(url) \o "/" \o ToString(i)]

\* No crawl was asked for yet.
PollInit ==
    /\ pollPc = "idle"
    /\ poller = "none"
    /\ cmdUrl = ""
    /\ pollJob = ""
    /\ pollState = NoState
    /\ pollRet = NoPollReturn
    /\ cmdRet = NoPollReturn
    /\ startLog = [count |-> 0, url |-> ""]
    /\ polls = 0
    /\ lastAnswer = NoAnswer
    /\ callbacks = [count |-> 0, last |-> NoProgress]

\* A call of `who` for `url` begins.
Begin(who, url) ==
    /\ poller' = who
    /\ cmdUrl' = url
    /\ pollPc' = "start"
    /\ pollJob' = ""
    /\ pollState' = NoState
    /\ pollRet' = NoPollReturn
    /\ cmdRet' = NoPollReturn
    /\ startLog' = [count |-> 0, url |-> ""]
    /\ polls' = 0
    /\ lastAnswer' = NoAnswer
    /\ callbacks' = [count |-> 0, last |-> NoProgress]

\* CrawlCommandBuilder::build and the execute of the command it gives: without a
\* url no command is made.
CrawlCommandBuild(url_opt) ==
    /\ pollPc = "idle"
    /\ IF url_opt.some
       THEN Begin("execute", url_opt.value)
       ELSE /\ poller' = "builder"
            /\ pollPc' = "done"
            /\ cmdRet' = PollErr(Error("ValidationError", "URL is required"))
            /\ UNCHANGED <<cmdUrl, pollJob, pollState, pollRet, startLog, polls, lastAnswer,
                           callbacks>>
    /\ UNCHANGED nonPollVars

\* CrawlCommand::new(url, ..) and the execute of the command.
CrawlCommandNew(url) ==
    /\ pollPc = "idle"
    /\ Begin("execute", url)
    /\ UNCHANGED nonPollVars

\* FirecrawlClient::crawl(url, limit)
ClientCrawl(url) ==
    /\ pollPc = "idle"
    /\ Begin("crawl", url)
    /\ UNCHANGED nonPollVars

\* How the start of a job ends: with a job id, with the error of the client's
\* construction, or with the error of the request.
StartOutcomes == {"ok", "ConfigurationError", "ApiError"}

\* CrawlCommand::execute up to crawl_url (client construction, request build, the
\* request that starts the job), and FirecrawlClient::crawl up to its loop.
StartJob(outcome, job_id) ==
    /\ pollPc = "start"
    /\ LET request == CrawlRequestBuild(cmdUrl) IN
       IF poller = "execute" /\ outcome = "ConfigurationError"
       THEN /\ cmdRet' = PollErr(Error("ConfigurationError", "client"))
            /\ pollPc' = "done"
            /\ UNCHANGED <<pollJob, pollRet, startLog>>
       ELSE IF poller = "execute" /\ ~request.ok
       THEN /\ cmdRet' = PollErr(Error("ValidationError", "request"))
            /\ pollPc' = "done"
            /\ UNCHANGED <<pollJob, pollRet, startLog>>
       ELSE /\ startLog' = [count |-> startLog.count + 1, url |-> request.url]
            /\ IF outcome = "ok"
               THEN /\ pollJob' = job_id
                    /\ pollPc' = "poll"
                    /\ UNCHANGED <<pollRet, cmdRet>>
               ELSE /\ pollPc' = "done"
                    /\ pollJob' = pollJob
                    /\ IF poller = "execute"
                       THEN /\ cmdRet' = PollErr(Error(ApiErrorKind(poller),
                                                       "Crawl start failed"))
                            /\ pollRet' = pollRet
                       ELSE /\ pollRet' = PollErr(Error(ApiErrorKind(poller),
                                                        "Crawl start failed"))
                            /\ cmdRet' = cmdRet
    /\ UNCHANGED <<poller, cmdUrl, pollState, polls, lastAnswer, callbacks>>
    /\ UNCHANGED nonPollVars

\* The loop's status request: self.check_crawl_status(job_id).await, whose error
\* ends the call at once. The remote answers at most MaxPolls requests with a job
\* in progress.
PollStatus(answer) ==
    /\ pollPc = "poll"
    /\ polls < MaxPolls \/ ~InProgressAnswer(answer)
    /\ polls' = polls + 1
    /\ lastAnswer' = answer
    /\ IF answer.fail # ""
       THEN /\ pollState' = NoState
            /\ pollRet' = PollErr(PollError(poller, answer.fail))
            /\ cmdRet' = IF poller = "execute" THEN pollRet' ELSE cmdRet
            /\ pollPc' = "done"
       ELSE /\ pollState' = check_crawl_status(pollJob, answer.response)
            /\ pollPc' = "handle"
            /\ UNCHANGED <<pollRet, cmdRet>>
    /\ UNCHANGED <<poller, cmdUrl, pollJob, startLog, callbacks>>
    /\ UNCHANGED nonPollVars

\* Mutant of Callback: the callback is invoked for a completed job as well.
CallbackAlways(cb, who, state) ==
    [count |-> cb.count + 1,
     last |-> CrawlProgress(state.completed, state.total, "in_progress")]

\* The progress_callback of monitor_crawl_job, invoked in the InProgress and the
\* Started arm; FirecrawlClient::crawl prints the progress and has no callback.
Callback(cb, who, state) ==
    IF who = "execute" /\ state.variant \in {"InProgress", "Started"}
    THEN [count |-> cb.count + 1,
          last |-> IF state.variant = "InProgress"
                   THEN CrawlProgress(state.completed, state.total, "in_progress")
                   ELSE CrawlProgress(0, 0, "started")]
    ELSE cb

\* Mutant of HandleState: a completed job without pages is polled again.
HandleStateUntilPages ==
    /\ pollPc = "handle"
    /\ callbacks' = Callback(callbacks, poller, pollState)
    /\ CASE pollState.variant = "Completed" /\ pollState.data # <<>> ->
              /\ pollRet' = PollOk(IF poller = "execute" THEN ConvertPages(pollState.data)
                                                        ELSE pollState.data)
              /\ pollPc' = IF poller = "execute" THEN "save" ELSE "done"
              /\ cmdRet' = cmdRet
         [] pollState.variant = "Failed" ->
              /\ pollRet' = PollErr(JobFailedError(poller, pollState.error))
              /\ cmdRet' = IF poller = "execute" THEN pollRet' ELSE cmdRet
              /\ pollPc' = "done"
         [] OTHER ->
              /\ pollPc' = "sleep"
              /\ UNCHANGED <<pollRet, cmdRet>>
    /\ UNCHANGED <<poller, cmdUrl, pollJob, pollState, startLog, polls, lastAnswer>>
    /\ UNCHANGED nonPollVars

\* match state { .. }: Completed returns the pages, Failed returns the error,
\* InProgress and Started report the progress and go to sleep.
HandleState ==
    /\ pollPc = "handle"
    /\ callbacks' = Callback(callbacks, poller, pollState)
    /\ CASE pollState.variant = "Completed" ->
              /\ pollRet' = PollOk(IF poller = "execute" THEN ConvertPages(pollState.data)
                                                        ELSE pollState.data)
              /\ pollPc' = IF poller = "execute" THEN "save" ELSE "done"
              /\ cmdRet' = cmdRet
         [] pollState.variant = "Failed" ->
              /\ pollRet' = PollErr(JobFailedError(poller, pollState.error))
              /\ cmdRet' = IF poller = "execute" THEN pollRet' ELSE cmdRet
              /\ pollPc' = "done"
         [] OTHER ->
              /\ pollPc' = "sleep"
              /\ UNCHANGED <<pollRet, cmdRet>>
    /\ UNCHANGED <<poller, cmdUrl, pollJob, pollState, startLog, polls, lastAnswer>>
    /\ UNCHANGED nonPollVars

\* Mutant of SleepDone: the loop gives up after its second poll.
SleepDoneGivingUp ==
    /\ pollPc = "sleep"
    /\ IF polls >= 2
       THEN /\ pollPc' = "done"
            /\ pollRet' = PollErr(Error("TimeoutError", "gave up"))
            /\ cmdRet' = IF poller = "execute" THEN pollRet' ELSE cmdRet
       ELSE /\ pollPc' = "poll"
            /\ UNCHANGED <<pollRet, cmdRet>>
    /\ UNCHANGED <<poller, cmdUrl, pollJob, pollState, startLog, polls, lastAnswer,
                   callbacks>>
    /\ UNCHANGED nonPollVars

\* sleep(Duration::from_secs(2)).await is over: the loop takes its next turn.
SleepDone ==
    /\ pollPc = "sleep"
    /\ pollPc' = "poll"
    /\ UNCHANGED <<poller, cmdUrl, pollJob, pollState, pollRet, cmdRet, startLog, polls,
                   lastAnswer, callbacks>>
    /\ UNCHANGED nonPollVars

\* How the saving of the pages ends.
SaveOutcomes == {"ok", "StorageError"}

\* CrawlCommand::execute after execute_crawl returned the pages: save_crawl_results
\* and the CommandResult.
SaveResults(outcome) ==
    /\ pollPc = "save"
    /\ pollPc' = "done"
    /\ cmdRet' = IF outcome = "ok"
                 THEN PollOk(<<CrawlResult(cmdUrl, SavedPages(cmdUrl, pollRet.results))>>)
                 ELSE PollErr(Error("StorageError", "save"))
    /\ UNCHANGED <<poller, cmdUrl, pollJob, pollState, pollRet, startLog, polls,
                   lastAnswer, callbacks>>
    /\ UNCHANGED nonPollVars

----------------------------------------------------------------------------
(***************************************************************************)
(* TaskService::execute_scrape (services/task_service.rs), with a          *)
(* MemoryCacheService as its cache_service.                                *)
(***************************************************************************)
\* The client of the cache the service is.
ServiceClient == CHOOSE c \in CacheClients : \A d \in CacheClients : c <= d

\* How command.execute ends: with a result, or with the error of the client's
\* construction, of the request to the API, or of saving the page.
ExecOutcomes == {"ok", "ConfigurationError", "ApiError", "StorageError"}

\* Whether an execute that ends this way has made its request to the remote API.
MakesRequest(outcome) == outcome # "ConfigurationError"

\* The result of a successful execute: the page saved under the service's output
\* directory.
ServiceResult(url, format) == StoredResult("scrape", url, format, 0)

\* What execute_scrape returns.
ServiceOk(task, result, from_cache) ==
    [task |-> task, tag |-> "ok", result |-> result, error |-> "", from_cache |-> from_cache]
ServiceErr(task, e) ==
    [task |-> task, tag |-> "err", result |-> NoResult, error |-> e, from_cache |-> FALSE]

\* TaskService::new: no call made yet
TaskInit ==
    /\ svcPc = "idle"
    /\ svcTask = <<>>
    /\ svcResult = NoResult
    /\ svcRet = <<>>
    /\ remoteCalls = [tg \in CallsOf("scrape") |-> 0]

\* execute_scrape(url, format), up to the end of the cache lock scope of its
\* get_scrape_result.
ExecuteScrapeLookup(tg) ==
    /\ svcPc = "idle"
    /\ GetLookup(ServiceClient, "scrape", tg[1], tg[2])
    /\ svcPc' = "cache_check"
    /\ svcTask' = tg
    /\ UNCHANGED <<queueVars, restVars, pollVars, progressVars, svcResult, svcRet, remoteCalls>>

\* Mutant of ExecuteScrapeCacheResult: the cached result is not used.
ExecuteScrapeCacheIgnored ==
    /\ svcPc = "cache_check"
    /\ GetCount(ServiceClient)
    /\ svcPc' = "execute"
    /\ Notify("started", svcTask[1], "scrape", "")
    /\ UNCHANGED <<queueVars, restVars, pollVars, svcTask, svcResult, svcRet, remoteCalls>>

\* get_scrape_result returns: a cached result is returned at once, otherwise
\* notify_task_started and the command is to be executed.
ExecuteScrapeCacheResult ==
    /\ svcPc = "cache_check"
    /\ GetCount(ServiceClient)
    /\ IF cacheLocal[ServiceClient].result.some
       THEN /\ svcRet' = Append(svcRet, ServiceOk(svcTask,
                                    cacheLocal[ServiceClient].result.value, TRUE))
            /\ svcPc' = "idle"
            /\ UNCHANGED progressVars
       ELSE /\ svcRet' = svcRet
            /\ svcPc' = "execute"
            /\ Notify("started", svcTask[1], "scrape", "")
    /\ UNCHANGED <<queueVars, restVars, pollVars, svcTask, svcResult, remoteCalls>>

\* Mutant of ExecuteScrapeCommand: a failed execute leaves an entry in the cache.
ExecuteScrapeCommandStoring(outcome) ==
    /\ svcPc = "execute"
    /\ remoteCalls' = IF MakesRequest(outcome)
                      THEN [remoteCalls EXCEPT ![svcTask] = @ + 1]
                      ELSE remoteCalls
    /\ IF outcome = "ok"
       THEN /\ svcResult' = ServiceResult(svcTask[1], svcTask[2])
            /\ svcPc' = "store"
            /\ svcRet' = svcRet
            /\ UNCHANGED <<progressVars, cacheVars>>
       ELSE /\ svcResult' = NoResult
            /\ svcPc' = "idle"
            /\ svcRet' = Append(svcRet, ServiceErr(svcTask, outcome))
            /\ Notify("failed", svcTask[1], "scrape", outcome)
            /\ Store(ServiceClient, "scrape", svcTask[1], svcTask[2],
                     ScrapeResult(svcTask[1], EmptyPath))
    /\ UNCHANGED <<queueVars, restVars, pollVars, svcTask>>

\* command.execute: the request to the remote API and the saving of the page; an
\* error is notified as notify_task_failed and returned to the caller.
ExecuteScrapeCommand(outcome) ==
    /\ svcPc = "execute"
    /\ remoteCalls' = IF MakesRequest(outcome)
                      THEN [remoteCalls EXCEPT ![svcTask] = @ + 1]
                      ELSE remoteCalls
    /\ IF outcome = "ok"
       THEN /\ svcResult' = ServiceResult(svcTask[1], svcTask[2])
            /\ svcPc' = "store"
            /\ svcRet' = svcRet
            /\ UNCHANGED progressVars
       ELSE /\ svcResult' = NoResult
            /\ svcPc' = "idle"
            /\ svcRet' = Append(svcRet, ServiceErr(svcTask, outcome))
            /\ Notify("failed", svcTask[1], "scrape", outcome)
    /\ UNCHANGED <<queueVars, restVars, pollVars, cacheVars, svcTask>>

\* store_scrape_result of the result, notify_task_completed, and the return of the
\* result.
ExecuteScrapeStore ==
    /\ svcPc = "store"
    /\ Store(ServiceClient, "scrape", svcTask[1], svcTask[2], svcResult)
    /\ Notify("completed", svcTask[1], "scrape", "")
    /\ svcRet' = Append(svcRet, ServiceOk(svcTask, svcResult, FALSE))
    /\ svcPc' = "idle"
    /\ svcResult' = NoResult
    /\ UNCHANGED <<queueVars, restVars, pollVars, svcTask, remoteCalls>>

----------------------------------------------------------------------------
(***************************************************************************)
(* TaskService::execute_crawl (services/task_service.rs), with a           *)
(* MemoryCacheService as its cache_service and a CrawlCommand.             *)
(***************************************************************************)
\* execute_crawl(url, options, format), up to the end of the cache lock scope of
\* its get_crawl_result.
ExecuteCrawlLookup(tg) ==
    /\ svcPc = "idle"
    /\ GetLookup(ServiceClient, "crawl", tg[1], tg[2])
    /\ svcPc' = "crawl_check"
    /\ svcTask' = tg
    /\ UNCHANGED <<queueVars, restVars, pollVars, progressVars, svcResult, svcRet, remoteCalls>>

\* get_crawl_result returns: a cached result is returned at once, otherwise
\* notify_task_started and command.execute begins.
ExecuteCrawlCacheResult ==
    /\ svcPc = "crawl_check"
    /\ GetCount(ServiceClient)
    /\ IF cacheLocal[ServiceClient].result.some
       THEN /\ svcRet' = Append(svcRet, ServiceOk(svcTask,
                                    cacheLocal[ServiceClient].result.value, TRUE))
            /\ svcPc' = "idle"
            /\ UNCHANGED <<progressVars, pollVars>>
       ELSE /\ svcRet' = svcRet
            /\ svcPc' = "crawl_execute"
            /\ Notify("started", svcTask[1], "crawl", "")
            /\ Begin("execute", svcTask[1])
    /\ UNCHANGED <<queueVars, restVars, svcTask, svcResult, remoteCalls>>

\* The command has returned and is dropped with all its locals.
Finish ==
    /\ pollPc' = "idle"
    /\ poller' = "none"
    /\ cmdUrl' = ""
    /\ pollJob' = ""
    /\ pollState' = NoState
    /\ pollRet' = NoPollReturn
    /\ cmdRet' = NoPollReturn
    /\ startLog' = [count |-> 0, url |-> ""]
    /\ polls' = 0
    /\ lastAnswer' = NoAnswer
    /\ callbacks' = [count |-> 0, last |-> NoProgress]

\* command.execute returned: its error is notified as notify_task_failed and
\* returned to the caller, its result is to be stored.
ExecuteCrawlCommand ==
    /\ svcPc = "crawl_execute"
    /\ pollPc = "done"
    /\ Finish
    /\ IF cmdRet.tag = "ok"
       THEN /\ svcResult' = cmdRet.results[1]
            /\ svcPc' = "crawl_store"
            /\ svcRet' = svcRet
            /\ UNCHANGED progressVars
       ELSE /\ svcResult' = NoResult
            /\ svcPc' = "idle"
            /\ svcRet' = Append(svcRet, ServiceErr(svcTask, cmdRet.error.kind))
            /\ Notify("failed", svcTask[1], "crawl", cmdRet.error.kind)
    /\ UNCHANGED <<queueVars, restVars, cacheVars, svcTask, remoteCalls>>

\* store_crawl_result of the result, notify_task_completed, and the return of the
\* result.
ExecuteCrawlStore ==
    /\ svcPc = "crawl_store"
    /\ Store(ServiceClient, "crawl", svcTask[1], svcTask[2], svcResult)
    /\ Notify("completed", svcTask[1], "crawl", "")
    /\ svcRet' = Append(svcRet, ServiceOk(svcTask, svcResult, FALSE))
    /\ svcPc' = "idle"
    /\ svcResult' = NoResult
    /\ UNCHANGED <<queueVars, restVars, pollVars, svcTask, remoteCalls>>

----------------------------------------------------------------------------
(***************************************************************************)
(* Concurrent calls of TaskService::execute_scrape / execute_crawl, as the *)
(* progress service sees them: the cache answers a hit or a miss, the      *)
(* command succeeds or fails.                                              *)
(***************************************************************************)
\* No caller is in a call.
CallerInit ==
    /\ taskPhase = [c \in NotifyCallers |-> "idle"]
    /\ taskLog = [c \in NotifyCallers |-> <<>>]

\* The cache check of a call: a hit returns the cached result and notifies
\* nothing, a miss calls notify_task_started.
ExecuteTaskBegin(c, hit) ==
    /\ taskPhase[c] = "idle"
    /\ notifyPc[c].phase = "idle"
    /\ IF hit
       THEN /\ taskLog' = [taskLog EXCEPT ![c] = <<>>]
            /\ UNCHANGED <<taskPhase, progressVars>>
       ELSE /\ NotifyCount(c, "started", NotifyTask(c)[1], NotifyTask(c)[2], "")
            /\ taskPhase' = [taskPhase EXCEPT ![c] = "started"]
            /\ taskLog' = [taskLog EXCEPT ![c] = <<"started">>]
    /\ UNCHANGED nonCallerVars

\* Mutant of ExecuteTaskCommand: the end of a task is notified as completed and as
\* failed at once.
ExecuteTaskCommandTwice(c, outcome) ==
    /\ taskPhase[c] = "started"
    /\ notifyPc[c].phase = "idle"
    /\ NotifyCount(c, "completed", NotifyTask(c)[1], NotifyTask(c)[2], "")
    /\ taskPhase' = [taskPhase EXCEPT ![c] = "returning"]
    /\ taskLog' = [taskLog EXCEPT ![c] = @ \o <<"completed", "failed">>]
    /\ UNCHANGED nonCallerVars

\* notify_task_started has returned and command.execute has ended: its error is
\* notified with notify_task_failed, its result with notify_task_completed.
ExecuteTaskCommand(c, outcome) ==
    /\ taskPhase[c] = "started"
    /\ notifyPc[c].phase = "idle"
    /\ LET method == IF outcome = "ok" THEN "completed" ELSE "failed" IN
        /\ NotifyCount(c, method, NotifyTask(c)[1], NotifyTask(c)[2],
                       IF outcome = "ok" THEN "" ELSE outcome)
        /\ taskLog' = [taskLog EXCEPT ![c] = Append(@, method)]
    /\ taskPhase' = [taskPhase EXCEPT ![c] = "returning"]
    /\ UNCHANGED nonCallerVars

\* The last notify call has returned and the call returns to its caller.
ExecuteTaskReturn(c) ==
    /\ taskPhase[c] = "returning"
    /\ notifyPc[c].phase = "idle"
    /\ taskPhase' = [taskPhase EXCEPT ![c] = "idle"]
    /\ UNCHANGED <<taskLog, progressVars, nonCallerVars>>

----------------------------------------------------------------------------
(***************************************************************************)
(* The lock scopes of MemoryCacheService: `cache` and `statistics` are     *)
(* tokio::sync::RwLock, whose waiters are served oldest first.             *)
(***************************************************************************)
\* The tasks calling the service concurrently.
LockClients == {1, 2, 3}
\* MemoryCacheService::cache and MemoryCacheService::statistics.
CacheLocks == {"cache", "statistics"}
\* DefaultProgressService::statistics and DefaultProgressService::observers.
ProgressLocks == {"task_statistics", "observers"}
Locks == CacheLocks \cup ProgressLocks

\* lock.read().await / lock.write().await, and the end of a guard's scope (a
\* closing brace or drop(guard)) before the operation returns.
Acquire(lock, mode) == [act |-> "acquire", lock |-> lock, mode |-> mode]
Release(lock) == [act |-> "release", lock |-> lock, mode |-> "none"]

\* Mutant of LockProgram: get_statistics takes the statistics lock before the
\* cache lock.
LockProgramStatisticsFirst(op) ==
    CASE op = "store"          -> <<Acquire("cache", "write"), Acquire("statistics", "write")>>
      [] op = "get"            -> <<Acquire("cache", "write"), Release("cache"),
                                    Acquire("statistics", "write")>>
      [] op = "exists"         -> <<Acquire("cache", "read")>>
      [] op = "clear"          -> <<Acquire("cache", "write"), Acquire("statistics", "write")>>
      [] op = "clean_expired"  -> <<Acquire("cache", "write"), Release("cache"),
                                    Acquire("cache", "read"), Acquire("statistics", "write")>>
      [] op = "get_statistics" -> <<Acquire("statistics", "read"), Acquire("cache", "read")>>
      [] op \in {"notify_task_started", "notify_task_completed", "notify_task_failed"} ->
                <<Acquire("task_statistics", "write"), Release("task_statistics"),
                  Acquire("observers", "read")>>
      [] op = "notify_task_progress" -> <<Acquire("observers", "read")>>
      [] op \in {"register_observer", "unregister_observer"} ->
                <<Acquire("observers", "write")>>

\* The lock scopes of each operation, in program order; the guards still alive at
\* the end are dropped when the operation returns.
LockProgram(op) ==
    CASE op = "store"          -> <<Acquire("cache", "write"), Acquire("statistics", "write")>>
      [] op = "get"            -> <<Acquire("cache", "write"), Release("cache"),
                                    Acquire("statistics", "write")>>
      [] op = "exists"         -> <<Acquire("cache", "read")>>
      [] op = "clear"          -> <<Acquire("cache", "write"), Acquire("statistics", "write")>>
      [] op = "clean_expired"  -> <<Acquire("cache", "write"), Release("cache"),
                                    Acquire("cache", "read"), Acquire("statistics", "write")>>
      [] op = "get_statistics" -> <<Acquire("cache", "read"), Acquire("statistics", "read")>>
      [] op \in {"notify_task_started", "notify_task_completed", "notify_task_failed"} ->
                <<Acquire("task_statistics", "write"), Release("task_statistics"),
                  Acquire("observers", "read")>>
      [] op = "notify_task_progress" -> <<Acquire("observers", "read")>>
      [] op \in {"register_observer", "unregister_observer"} ->
                <<Acquire("observers", "write")>>

CacheLockOps == {"store", "get", "exists", "clear", "clean_expired", "get_statistics"}

LockInit ==
    /\ lockOp = [c \in LockClients |-> "none"]
    /\ lockPc = [c \in LockClients |-> 0]
    /\ lockQueue = [l \in Locks |-> <<>>]
    /\ lockHeld = [l \in Locks |-> {}]

\* The step client c is at, when it is inside an operation and has not finished it.
LockAt(c) == LockProgram(lockOp[c])[lockPc[c]]
LockInside(c) == lockOp[c] # "none" /\ lockPc[c] <= Len(LockProgram(lockOp[c]))
LockWaits(c, l) == \E i \in 1..Len(lockQueue[l]) : lockQueue[l][i].client = c
LockHolds(c, l) == \E h \in lockHeld[l] : h.client = c

\* A write guard excludes every other guard; read guards share.
LockFree(l, mode) ==
    IF mode = "write" THEN lockHeld[l] = {} ELSE \A h \in lockHeld[l] : h.mode = "read"

\* A client calls an operation of a service.
LockCallStep(c, op) ==
    /\ lockOp[c] = "none"
    /\ lockOp' = [lockOp EXCEPT ![c] = op]
    /\ lockPc' = [lockPc EXCEPT ![c] = 1]
    /\ UNCHANGED <<lockQueue, lockHeld>>

LockCall(c, op) == LockCallStep(c, op) /\ UNCHANGED nonLockVars

\* lock.read() / lock.write() is polled: the request joins the lock's wait queue.
LockRequest(c) ==
    /\ LockInside(c)
    /\ LockAt(c).act = "acquire"
    /\ ~LockWaits(c, LockAt(c).lock)
    /\ lockQueue' = [lockQueue EXCEPT ![LockAt(c).lock] =
                        Append(@, [client |-> c, mode |-> LockAt(c).mode])]
    /\ UNCHANGED <<nonLockVars, lockOp, lockPc, lockHeld>>

\* The oldest request of a lock is granted once the guards alive allow it.
LockGrantStep(c) ==
    /\ LockInside(c)
    /\ LockAt(c).act = "acquire"
    /\ LET l == LockAt(c).lock IN
        /\ lockQueue[l] # <<>>
        /\ Head(lockQueue[l]).client = c
        /\ LockFree(l, LockAt(c).mode)
        /\ lockQueue' = [lockQueue EXCEPT ![l] = Tail(@)]
        /\ lockHeld' = [lockHeld EXCEPT ![l] = @ \cup {[client |-> c, mode |-> LockAt(c).mode]}]
    /\ lockPc' = [lockPc EXCEPT ![c] = @ + 1]
    /\ UNCHANGED lockOp

LockGrant(c) == LockGrantStep(c) /\ UNCHANGED nonLockVars

\* A guard's scope ends inside the operation.
LockRelease(c) ==
    /\ LockInside(c)
    /\ LockAt(c).act = "release"
    /\ lockHeld' = [lockHeld EXCEPT ![LockAt(c).lock] = {h \in @ : h.client # c}]
    /\ lockPc' = [lockPc EXCEPT ![c] = @ + 1]
    /\ UNCHANGED <<nonLockVars, lockOp, lockQueue>>

\* The operation returns: its remaining guards are dropped.
LockReturnStep(c) ==
    /\ lockOp[c] # "none"
    /\ lockPc[c] = Len(LockProgram(lockOp[c])) + 1
    /\ lockHeld' = [l \in Locks |-> {h \in lockHeld[l] : h.client # c}]
    /\ lockOp' = [lockOp EXCEPT ![c] = "none"]
    /\ lockPc' = [lockPc EXCEPT ![c] = 0]
    /\ UNCHANGED lockQueue

LockReturn(c) == LockReturnStep(c) /\ UNCHANGED nonLockVars

----------------------------------------------------------------------------
(***************************************************************************)
(* DefaultProgressService followed through its lock scopes: notify_*,      *)
(* register_observer and unregister_observer called concurrently.          *)
(***************************************************************************)
CountingOps == {"notify_task_started", "notify_task_completed", "notify_task_failed"}
NotifyOps == CountingOps \cup {"notify_task_progress"}
RegistrarOps == {"register_observer", "unregister_observer"}
\* The task that reports a task's lifecycle and the tasks that register and
\* unregister the observer meanwhile.
Notifiers == {1}
Registrars == {2, 3}

\* The event a notify_* method publishes, and what it carries beside the task.
MethodOf(op) ==
    CASE op = "notify_task_started" -> "started"
      [] op = "notify_task_completed" -> "completed"
      [] op = "notify_task_failed" -> "failed"
      [] op = "notify_task_progress" -> "progress"
DetailOf(op) == IF op = "notify_task_failed" THEN "ApiError" ELSE ""

\* Mutant of ObserversAfter: unregister_observer leaves the map as it is.
ObserversAfterKeeping(op, obs) ==
    IF op = "register_observer" THEN obs \cup ObserverIds ELSE obs

\* observers.insert(observer_id, observer) / observers.remove(observer_id)
ObserversAfter(op, obs) ==
    IF op = "register_observer" THEN obs \cup ObserverIds ELSE obs \ ObserverIds

RegistryInit ==
    /\ regReturned = "none"
    /\ regView = [c \in LockClients |-> "none"]

\* notify_* calls that have begun and are not counted among the received yet.
Uncounted == Cardinality({d \in LockClients : lockOp[d] \in NotifyOps /\ lockPc[d] = 1})

\* A client calls notify_*, register_observer or unregister_observer.
RegistryCall(c, op) ==
    /\ LockCallStep(c, op)
    /\ op \in NotifyOps =>
            /\ c \in Notifiers
            /\ Received + Uncounted < MaxNotifies
            /\ MethodOf(op) \in TaskLifecycle(Received + Uncounted)
    /\ op \in RegistrarOps => c \in Registrars
    /\ regView' =
          IF op \in NotifyOps
          THEN [regView EXCEPT ![c] =
                    IF \E d \in LockClients : lockOp[d] \in RegistrarOps
                    THEN "unknown" ELSE regReturned]
          ELSE [d \in LockClients |->
                    IF lockOp[d] \in NotifyOps THEN "unknown" ELSE regView[d]]
    /\ UNCHANGED <<nonRegistryVars, progressVars, regReturned>>

\* A lock is granted and the scope it opens runs: the counting under the
\* statistics lock, the spawning of the callbacks under the observers read lock,
\* the change of the map under the observers write lock.
RegistryGrant(c) ==
    /\ LockGrantStep(c)
    /\ LET op == lockOp[c]
           l == LockAt(c).lock
       IN  CASE op \in CountingOps /\ l = "task_statistics" ->
                    NotifyCount(c, MethodOf(op), NotifyTask(c)[1], NotifyTask(c)[2],
                                DetailOf(op))
             [] op \in CountingOps /\ l = "observers" ->
                    /\ spawned' = SpawnCallbacks(spawned, observers, notifyPc[c].event)
                    /\ snapshot' = NoSnapshot
                    /\ UNCHANGED <<taskStatistics, observers, notifyPc, delivered, notified>>
             [] op = "notify_task_progress" ->
                    /\ spawned' = SpawnCallbacks(spawned, observers,
                                      NotifyEvent(Received + 1, "progress", NotifyTask(c)[1],
                                                  NotifyTask(c)[2], 50))
                    /\ notified' = [notified EXCEPT !.received["progress"] = @ + 1]
                    /\ snapshot' = NoSnapshot
                    /\ UNCHANGED <<taskStatistics, observers, notifyPc, delivered>>
             [] op \in RegistrarOps ->
                    /\ observers' = ObserversAfter(op, observers)
                    /\ snapshot' = NoSnapshot
                    /\ UNCHANGED <<taskStatistics, notifyPc, spawned, delivered, notified>>
    /\ UNCHANGED <<nonRegistryVars, registryVars>>

\* The call returns.
RegistryReturn(c) ==
    /\ LockReturnStep(c)
    /\ IF lockOp[c] \in NotifyOps
       THEN /\ notified' = [notified EXCEPT !.returned[MethodOf(lockOp[c])] = @ + 1]
            /\ notifyPc' = [notifyPc EXCEPT ![c] = IdleNotify]
            /\ UNCHANGED regReturned
       ELSE /\ regReturned' = lockOp[c]
            /\ UNCHANGED <<notified, notifyPc>>
    /\ UNCHANGED <<nonRegistryVars, taskStatistics, observers, spawned, delivered, snapshot,
                   regView>>

----------------------------------------------------------------------------
(***************************************************************************)
(* FirecrawlError (errors/mod.rs, storage/errors.rs)                       *)
(***************************************************************************)
\* The variants of ApiError, NetworkError and StorageError.
ApiErrors == {"RequestError", "InvalidResponse", "ApiFailure", "RateLimitExceeded",
              "AuthenticationFailed", "EndpointNotFound", "InvalidApiKey", "Timeout",
              "Other"}
NetworkErrors == {"ConnectionFailed", "DnsError", "SslError", "Timeout", "InvalidUrl",
                  "ProxyError"}
StorageErrors == {"FileSystem", "Serialization", "InvalidPath", "PermissionDenied",
                  "DirectoryNotFound", "FileExists", "FileNotFound",
                  "UnsupportedContentType"}
\* The variants of FirecrawlError that carry a message only.
MessageErrors == {"ConfigurationError", "ValidationError", "ExecutionError", "UiError",
                  "AuthenticationError", "RateLimitError", "TimeoutError"}

\* A FirecrawlError: its variant and, for the three that wrap an enum, the variant
\* wrapped.
FirecrawlError(variant, inner) == [variant |-> variant, inner |-> inner]
FirecrawlErrors ==
    {FirecrawlError("ApiError", e) : e \in ApiErrors}
    \cup {FirecrawlError("NetworkError", e) : e \in NetworkErrors}
    \cup {FirecrawlError("StorageError", e) : e \in StorageErrors}
    \cup {FirecrawlError(v, "") : v \in MessageErrors}

\* FirecrawlError::error_code
error_code(e) ==
    CASE e.variant = "ApiError" -> "API_ERROR"
      [] e.variant = "StorageError" -> "STORAGE_ERROR"
      [] e.variant = "ConfigurationError" -> "CONFIG_ERROR"
      [] e.variant = "ValidationError" -> "VALIDATION_ERROR"
      [] e.variant = "ExecutionError" -> "EXECUTION_ERROR"
      [] e.variant = "NetworkError" -> "NETWORK_ERROR"
      [] e.variant = "UiError" -> "UI_ERROR"
      [] e.variant = "AuthenticationError" -> "AUTH_ERROR"
      [] e.variant = "RateLimitError" -> "RATE_LIMIT_ERROR"
      [] e.variant = "TimeoutError" -> "TIMEOUT_ERROR"

\* FirecrawlError::is_retryable
is_retryable(e) ==
    CASE e.variant = "NetworkError" -> TRUE
      [] e.variant = "ApiError" ->
            (CASE e.inner = "RequestError" -> TRUE
               [] e.inner = "Timeout" -> TRUE
               [] e.inner = "RateLimitExceeded" -> TRUE
               [] OTHER -> FALSE)
      [] e.variant = "TimeoutError" -> TRUE
      [] e.variant = "StorageError" -> FALSE
      [] OTHER -> FALSE

\* No error was asked yet.
ErrorInit == classified = <<>>

\* A caller holding the error e asks for its code and whether to retry.
Classify(e) ==
    /\ Len(classified) < MaxClassified
    /\ classified' = Append(classified, [error |-> e, retryable |-> is_retryable(e),
                                         code |-> error_code(e)])
    /\ UNCHANGED nonErrorVars

----------------------------------------------------------------------------
(***************************************************************************)
(* The task queue with one caller, its spawned units and an enqueuer.      *)
(***************************************************************************)
\* The component a specification leaves alone stays as constructed.
CacheUnused == CacheInit /\ ttl = 0
QueueUnused == QueueInit /\ limit = 1
TaskUnused == TaskInit
ProgressUnused == ProgressInit
PollUnused == PollInit
CallerUnused == CallerInit
ErrorUnused == ErrorInit
RunUnused == RunInit
LockUnused == LockInit
DeliveryUnused == DeliveryInit
RegistryUnused == RegistryInit
RestUnused ==
    /\ CallerUnused /\ ErrorUnused /\ RunUnused /\ LockUnused /\ DeliveryUnused
    /\ RegistryUnused

Init == QueueInit /\ CacheUnused /\ TaskUnused /\ ProgressUnused /\ PollUnused /\ RestUnused

Next ==
    \/ \E k \in Kinds : Enqueue(k, Target(nEnq + 1))
    \/ PendingCount
    \/ IsEmpty
    \/ ExecuteAllBegin
    \/ ExecuteAllSpawn
    \/ ExecuteAllBreak
    \/ \E t \in 1..Len(units) : TaskAcquire(t)
    \/ \E t \in 1..Len(units), o \in {"ok", "panicked"} : TaskRun(t, o)
    \/ ExecuteAllJoin
    \/ ExecuteAllReturn
    \/ ExecuteAllDropped
    \/ ExecuteSequentialBegin
    \/ ExecuteSequentialPop
    \/ \E e \in {""} \cup ExecErrors : ExecuteSequentialExecute(e)
    \/ ExecuteSequentialReturn


Spec == Init /\ [][Next]_vars

\* execute_all with a caller that waits for it to return: the runtime runs every
\* task that can take a step, and a unit that holds a permit finishes.
QueueLiveNext ==
    \/ \E k \in Kinds : Enqueue(k, Target(nEnq + 1))
    \/ PendingCount
    \/ IsEmpty
    \/ ExecuteAllBegin
    \/ ExecuteAllSpawn
    \/ ExecuteAllBreak
    \/ \E t \in 1..Len(units) : TaskAcquire(t)
    \/ \E t \in 1..Len(units), o \in {"ok", "panicked"} : TaskRun(t, o)
    \/ ExecuteAllJoin
    \/ ExecuteAllReturn

QueueFairness ==
    /\ WF_vars(ExecuteAllSpawn)
    /\ WF_vars(ExecuteAllBreak)
    /\ WF_vars(\E t \in 1..Len(units) : TaskAcquire(t))
    /\ WF_vars(\E t \in 1..Len(units), o \in {"ok", "panicked"} : TaskRun(t, o))
    /\ WF_vars(ExecuteAllJoin)
    /\ WF_vars(ExecuteAllReturn)

QueueLiveSpec == Init /\ [][QueueLiveNext]_vars /\ QueueFairness

----------------------------------------------------------------------------
(***************************************************************************)
(* One queue, an enqueuer and two callers of execute_all /                 *)
(* execute_sequential.                                                     *)
(***************************************************************************)
RunSpecInit ==
    /\ RunInit
    /\ QueueUnused /\ CacheUnused /\ TaskUnused /\ ProgressUnused /\ PollUnused
    /\ CallerUnused /\ ErrorUnused /\ LockUnused /\ DeliveryUnused /\ RegistryUnused

RunNext ==
    \/ \E k \in Kinds : Enqueue(k, Target(nEnq + 1))
    \/ PendingCount
    \/ IsEmpty
    \/ \E r \in Runners, mode \in {"all", "sequential"} : RunBegin(r, mode)
    \/ \E r \in Runners : RunPop(r)
    \/ \E r \in Runners, e \in {""} \cup ExecErrors : RunExecute(r, e)
    \/ \E r \in Runners : RunBreak(r)

RunSpec == RunSpecInit /\ [][RunNext]_vars

----------------------------------------------------------------------------
(***************************************************************************)
(* Three tasks calling the cache's operations, followed through their lock *)
(* scopes.                                                                 *)
(***************************************************************************)
LockSpecInit ==
    /\ LockInit
    /\ QueueUnused /\ CacheUnused /\ TaskUnused /\ ProgressUnused /\ PollUnused
    /\ CallerUnused /\ ErrorUnused /\ RunUnused /\ DeliveryUnused /\ RegistryUnused

LockNext ==
    \/ \E c \in LockClients, op \in CacheLockOps : LockCall(c, op)
    \/ \E c \in LockClients : LockRequest(c)
    \/ \E c \in LockClients : LockGrant(c)
    \/ \E c \in LockClients : LockRelease(c)
    \/ \E c \in LockClients : LockReturn(c)

\* The runtime polls every task that can take a step (a task inside an operation
\* has at most one step it can take).
LockFairness ==
    \A c \in LockClients :
        WF_vars(LockRequest(c) \/ LockGrant(c) \/ LockRelease(c) \/ LockReturn(c))

LockSpec == LockSpecInit /\ [][LockNext]_vars /\ LockFairness

----------------------------------------------------------------------------
(***************************************************************************)
(* The cache with its clients and the clock.                               *)
(***************************************************************************)
CacheSpecInit == CacheInit /\ QueueUnused /\ TaskUnused /\ ProgressUnused /\ PollUnused /\ RestUnused

CacheNext ==
    \/ Tick
    \/ \E c \in CacheClients, tg \in CallsOf("scrape") :
            store_scrape_result(c, tg[1], tg[2],
                                StoredResult("scrape", tg[1], tg[2], nCacheOps + 1))
    \/ \E c \in CacheClients, tg \in CallsOf("crawl") :
            store_crawl_result(c, tg[1], tg[2],
                               StoredResult("crawl", tg[1], tg[2], nCacheOps + 1))
    \/ \E c \in CacheClients, tg \in CallsOf("scrape") : get_scrape_result(c, tg[1], tg[2])
    \/ \E c \in CacheClients, tg \in CallsOf("crawl") : get_crawl_result(c, tg[1], tg[2])
    \/ \E c \in CacheClients : GetReturn(c)
    \/ \E c \in CacheClients, tg \in CacheTargets : Exists(c, tg[1], tg[2])
    \/ \E c \in CacheClients : Clear(c)
    \/ \E c \in CacheClients : CleanRemove(c)
    \/ \E c \in CacheClients : CleanCount(c)
    \/ \E c \in CacheClients : GetStatistics(c)

CacheSpec == CacheSpecInit /\ [][CacheNext]_vars

----------------------------------------------------------------------------
(***************************************************************************)
(* The task service with its cache, one caller and the clock.              *)
(***************************************************************************)
TaskSpecInit == CacheInit /\ QueueUnused /\ TaskInit /\ ProgressInit /\ PollInit /\ RestUnused

TaskNext ==
    \/ Tick
    \/ \E tg \in CallsOf("scrape") : ExecuteScrapeLookup(tg)
    \/ ExecuteScrapeCacheResult
    \/ \E o \in ExecOutcomes : ExecuteScrapeCommand(o)
    \/ ExecuteScrapeStore

TaskSpec == TaskSpecInit /\ [][TaskNext]_vars

----------------------------------------------------------------------------
(***************************************************************************)
(* The progress service with its callers, observers and spawned callbacks. *)
(***************************************************************************)
ProgressSpecInit ==
    ProgressInit /\ QueueUnused /\ CacheUnused /\ TaskUnused /\ PollUnused /\ RestUnused

ProgressNext ==
    \/ \E c \in NotifyCallers : notify_task_started(c, NotifyTask(c)[1], NotifyTask(c)[2])
    \/ \E c \in NotifyCallers, p \in ProgressValues :
            notify_task_progress(c, NotifyTask(c)[1], NotifyTask(c)[2], p)
    \/ \E c \in NotifyCallers :
            notify_task_completed(c, NotifyTask(c)[1], NotifyTask(c)[2])
    \/ \E c \in NotifyCallers, e \in NotifyErrors :
            notify_task_failed(c, NotifyTask(c)[1], NotifyTask(c)[2], e)
    \/ \E c \in NotifyCallers : NotifyDispatch(c)
    \/ \E cb \in spawned : ObserverCallback(cb)
    \/ \E o \in ObserverIds : register_observer(o)
    \/ \E o \in ObserverIds : unregister_observer(o)
    \/ get_statistics

ProgressSpec == ProgressSpecInit /\ [][ProgressNext]_vars

----------------------------------------------------------------------------
(***************************************************************************)
(* The progress service with one caller, a responsive observer and an      *)
(* observer whose callbacks hang or panic.                                 *)
(***************************************************************************)
DeliveryCallers == {1}

DeliverySpecInit ==
    /\ ProgressInit /\ DeliveryInit
    /\ QueueUnused /\ CacheUnused /\ TaskUnused /\ PollUnused
    /\ CallerUnused /\ ErrorUnused /\ RunUnused /\ LockUnused /\ RegistryUnused

DeliveryNext ==
    \/ \E c \in DeliveryCallers : ReportStarted(c)
    \/ \E c \in DeliveryCallers, p \in ProgressValues : ReportProgress(c, p)
    \/ \E c \in DeliveryCallers : ReportCompleted(c)
    \/ \E c \in DeliveryCallers, e \in NotifyErrors : ReportFailed(c, e)
    \/ \E c \in DeliveryCallers : NotifyDispatch(c)
    \/ \E cb \in spawned : Deliver(cb)
    \/ \E cb \in spawned : CallbackHangs(cb)
    \/ \E cb \in spawned : CallbackPanics(cb)
    \/ \E o \in AllObservers : register_observer(o)
    \/ \E o \in AllObservers : unregister_observer(o)

\* The runtime runs the caller and every spawned task; a callback of a responsive
\* observer returns.
DeliveryFairness ==
    /\ \A c \in DeliveryCallers : WF_vars(NotifyDispatch(c))
    /\ WF_vars(\E cb \in spawned : Deliver(cb))

DeliverySpec == DeliverySpecInit /\ [][DeliveryNext]_vars /\ DeliveryFairness

----------------------------------------------------------------------------
(***************************************************************************)
(* Tasks calling notify_*, register_observer and unregister_observer       *)
(* concurrently, followed through their lock scopes.                       *)
(***************************************************************************)
RegistrySpecInit ==
    /\ ProgressInit /\ LockInit /\ RegistryInit
    /\ QueueUnused /\ CacheUnused /\ TaskUnused /\ PollUnused
    /\ CallerUnused /\ ErrorUnused /\ RunUnused /\ DeliveryUnused

RegistryNext ==
    \/ \E c \in LockClients, op \in NotifyOps \cup RegistrarOps : RegistryCall(c, op)
    \/ \E c \in LockClients : LockRequest(c)
    \/ \E c \in LockClients : RegistryGrant(c)
    \/ \E c \in LockClients : LockRelease(c)
    \/ \E c \in LockClients : RegistryReturn(c)

\* The runtime polls every task that can take a step.
RegistryFairness ==
    \A c \in LockClients :
        WF_vars(LockRequest(c) \/ RegistryGrant(c) \/ LockRelease(c) \/ RegistryReturn(c))

RegistrySpec == RegistrySpecInit /\ [][RegistryNext]_vars /\ RegistryFairness

----------------------------------------------------------------------------
(***************************************************************************)
(* One crawl: a caller, the client's polling loop and the remote.          *)
(***************************************************************************)
PollSpecInit ==
    PollInit /\ QueueUnused /\ CacheUnused /\ TaskUnused /\ ProgressUnused /\ RestUnused

\* The url a CrawlCommandBuilder was given, if any.
UrlOptions == {NoText} \cup {SomeText(url) : url \in CrawlUrls}

PollNext ==
    \/ \E url_opt \in UrlOptions : CrawlCommandBuild(url_opt)
    \/ \E url \in CrawlUrls : CrawlCommandNew(url)
    \/ \E url \in CrawlUrls : ClientCrawl(url)
    \/ \E outcome \in StartOutcomes, job_id \in JobIds : StartJob(outcome, job_id)
    \/ \E answer \in PollAnswers : PollStatus(answer)
    \/ HandleState
    \/ SleepDone
    \/ \E outcome \in SaveOutcomes : SaveResults(outcome)

PollSpec == PollSpecInit /\ [][PollNext]_vars

\* The runtime runs a task that can take a step, and the remote answers every
\* request.
PollFairness ==
    /\ WF_vars(\E outcome \in StartOutcomes, job_id \in JobIds : StartJob(outcome, job_id))
    /\ WF_vars(\E answer \in PollAnswers : PollStatus(answer))
    /\ WF_vars(HandleState)
    /\ WF_vars(SleepDone)
    /\ WF_vars(\E outcome \in SaveOutcomes : SaveResults(outcome))

PollLiveSpec == PollSpecInit /\ [][PollNext]_vars /\ PollFairness

----------------------------------------------------------------------------
(***************************************************************************)
(* The task service running crawl tasks: its cache, its progress service,  *)
(* the command's polling loop and the remote.                              *)
(***************************************************************************)
CrawlTaskSpecInit == CacheInit /\ QueueUnused /\ TaskInit /\ ProgressInit /\ PollInit /\ RestUnused

CrawlTaskNext ==
    \/ \E tg \in CallsOf("crawl") : ExecuteCrawlLookup(tg)
    \/ ExecuteCrawlCacheResult
    \/ \E outcome \in StartOutcomes, job_id \in JobIds : StartJob(outcome, job_id)
    \/ \E answer \in PollAnswers : PollStatus(answer)
    \/ HandleState
    \/ SleepDone
    \/ \E outcome \in SaveOutcomes : SaveResults(outcome)
    \/ ExecuteCrawlCommand
    \/ ExecuteCrawlStore

CrawlTaskSpec == CrawlTaskSpecInit /\ [][CrawlTaskNext]_vars

----------------------------------------------------------------------------
(***************************************************************************)
(* The task service running scrape and crawl tasks, one after the other.   *)
(***************************************************************************)
\* The cache's entries do not expire: this specification has no clock.
ServiceSpecInit ==
    CacheInit /\ ttl = 0 /\ QueueUnused /\ TaskInit /\ ProgressInit /\ PollInit /\ RestUnused

ServiceNext ==
    \/ \E tg \in CallsOf("scrape") : ExecuteScrapeLookup(tg)
    \/ ExecuteScrapeCacheResult
    \/ \E o \in ExecOutcomes : ExecuteScrapeCommand(o)
    \/ ExecuteScrapeStore
    \/ \E tg \in CallsOf("crawl") : ExecuteCrawlLookup(tg)
    \/ ExecuteCrawlCacheResult
    \/ \E outcome \in StartOutcomes, job_id \in JobIds : StartJob(outcome, job_id)
    \/ \E answer \in PollAnswers : PollStatus(answer)
    \/ HandleState
    \/ SleepDone
    \/ \E outcome \in SaveOutcomes : SaveResults(outcome)
    \/ ExecuteCrawlCommand
    \/ ExecuteCrawlStore

ServiceSpec == ServiceSpecInit /\ [][ServiceNext]_vars

----------------------------------------------------------------------------
(***************************************************************************)
(* Concurrent tasks of the task service and the progress service they      *)
(* notify, with its observer.                                              *)
(***************************************************************************)
CallerSpecInit ==
    /\ CallerInit /\ ProgressInit
    /\ QueueUnused /\ CacheUnused /\ TaskUnused /\ PollUnused /\ ErrorUnused /\ RunUnused
    /\ LockUnused /\ DeliveryUnused /\ RegistryUnused

CallerNext ==
    \/ \E c \in NotifyCallers, hit \in BOOLEAN : ExecuteTaskBegin(c, hit)
    \/ \E c \in NotifyCallers, outcome \in {"ok"} \cup NotifyErrors :
            ExecuteTaskCommand(c, outcome)
    \/ \E c \in NotifyCallers : ExecuteTaskReturn(c)
    \/ \E c \in NotifyCallers : NotifyDispatch(c)
    \/ \E cb \in spawned : ObserverCallback(cb)
    \/ \E o \in ObserverIds : register_observer(o)
    \/ \E o \in ObserverIds : unregister_observer(o)
    \/ get_statistics

CallerSpec == CallerSpecInit /\ [][CallerNext]_vars

----------------------------------------------------------------------------
(***************************************************************************)
(* A caller classifying the errors it holds.                               *)
(***************************************************************************)
ErrorSpecInit ==
    /\ ErrorInit /\ RunUnused /\ LockUnused /\ DeliveryUnused /\ RegistryUnused
    /\ QueueUnused /\ CacheUnused /\ TaskUnused /\ ProgressUnused /\ PollUnused
    /\ CallerUnused

ErrorNext == \E e \in FirecrawlErrors : Classify(e)

ErrorSpec == ErrorSpecInit /\ [][ErrorNext]_vars

----------------------------------------------------------------------------
(***************************************************************************)
(* Properties of the task queue.                                           *)
(***************************************************************************)
\* The spawned units that hold a permit, wait for one, or have not ended.
Executing == {t \in 1..Len(units) : units[t].st = "running"}
Waiting == {t \in 1..Len(units) : units[t].st = "waiting"}
Unfinished == Executing \cup Waiting
\* The last call returned (Ok or Err) and the caller is back.
Returned(op) == pc = "idle" /\ ret.op = op /\ ret.tag \in {"ok", "err"}
\* The unit behind the i-th handle of the current (or last) execute_all.
HandleUnit(i) == units[handles[i]]
\* The ids the current (or last) run dequeued, in order.
RunDequeued == SubSeq(deqLog, runStart.deq + 1, nDeq)

\* C1: at any time at most `limit` spawned units are executing (hold a permit),
\* however many commands were enqueued.
C1_BoundedConcurrency == Cardinality(Executing) <= limit

\* C1 witness: the pool is exhausted by an executing unit while another unit waits.
C1_Witness ==
    /\ limit >= 1
    /\ Cardinality(Executing) = limit
    /\ Waiting # {}

\* C2: every executing unit holds exactly one permit, and the permit is back in the
\* semaphore however the unit ended: once the call is over and every spawned unit
\* has ended (returned or panicked), all `limit` permits are available.
C2_PermitsReleased ==
    /\ permits + Cardinality(Executing) = limit
    /\ (pc = "idle" /\ Unfinished = {}) => permits = limit

\* C2 witness: execute_all is over (by an error or because its caller dropped it),
\* a unit panicked, every unit has ended and the pool is full again.
C2_Witness ==
    /\ pc = "idle"
    /\ ret.op = "execute_all"
    /\ ret.tag \in {"err", "dropped"}
    /\ limit >= 1
    /\ Len(units) >= 2
    /\ Unfinished = {}
    /\ \E t \in 1..Len(units) : units[t].st = "panicked"
    /\ permits = limit

C4_ActualOutcomes ==
    (Returned("execute_all") /\ ret.tag = "ok") =>
        \A i \in 1..Len(handles) :
            /\ execCount[HandleUnit(i).cmd.id] = 1
            /\ i <= Len(ret.results)
            /\ ret.results[i] = ExecuteResult(HandleUnit(i).cmd)

\* C5 as stated: the dequeue loop holds back while the pool is exhausted, so at most
\* `limit` tasks are dispatched and unfinished.
C5_DispatchBounded ==
    limit >= 1 => Cardinality(Unfinished) <= limit

\* C5 amended: the dequeue loop acquires nothing. It dispatches every pending command
\* at once, whatever the state of the pool, and each dispatched unit acquires its own
\* permit before it executes: the permits taken are exactly those of the executing
\* units, and the units dispatched beyond that are waiting for a permit.
C5_DispatchThenAcquire ==
    /\ (pc = "all_loop" /\ commands # <<>>) => ENABLED ExecuteAllSpawn
    /\ limit - permits = Cardinality(Executing)
    /\ Cardinality(Unfinished) = (limit - permits) + Cardinality(Waiting)

\* C5 witness: with a pool of one permit, two units are dispatched and unfinished.
C5_Witness ==
    /\ limit = 1
    /\ Cardinality(Unfinished) = 2
    /\ permits = 0

\* C6: commands leave the pending set in enqueue order, in execute_all and in
\* execute_sequential (ids are given out in enqueue order).
C6_FifoOrder ==
    /\ \A i, j \in 1..Len(deqLog) : i < j => deqLog[i] < deqLog[j]
    /\ \A i \in 1..Len(commands) : \A j \in 1..Len(deqLog) : deqLog[j] < commands[i].id

\* C6 witness: two commands that were pending together when a run began were both
\* dequeued by it.
C6_Witness ==
    /\ runStart.deq = 0
    /\ runStart.enq >= 2
    /\ Len(deqLog) >= 2
    /\ pc \in {"all_loop", "seq_loop"}

\* C7 as stated: when execute_sequential returns, every command that was pending
\* when it began has been executed, whether or not an earlier one failed.
C7_SequentialContinues ==
    Returned("execute_sequential") =>
        \A id \in (runStart.deq + 1)..runStart.enq : execCount[id] >= 1

\* C7 amended: execute_sequential executes one command at a time, each dequeued
\* command before the next is dequeued, and stops at the first failure: it returns
\* that error alone, the outcomes collected so far are dropped, and the commands
\* behind the failed one stay pending, unexecuted.
C7_SequentialStopsAtFirstError ==
    /\ pc \in {"seq_loop", "seq_exec"} =>
        nDeq - runStart.deq = Len(results) + (IF pc = "seq_exec" THEN 1 ELSE 0)
    /\ (Returned("execute_sequential") /\ ret.tag = "ok") =>
        /\ Len(ret.results) = Len(RunDequeued)
        /\ \A i \in 1..Len(RunDequeued) : execCount[RunDequeued[i]] = 1
    /\ (Returned("execute_sequential") /\ ret.tag = "err") =>
        /\ nDeq > runStart.deq
        /\ ret.at = deqLog[nDeq]
        /\ execCount[ret.at] = 1
        /\ ret.results = <<>>
        /\ \A i \in 1..Len(commands) : execCount[commands[i].id] = 0

\* C7 witness: execute_sequential returned an error after one success, and a command
\* is still pending.
C7_Witness ==
    /\ Returned("execute_sequential")
    /\ ret.tag = "err"
    /\ \E id \in 1..MaxTasks : id # ret.at /\ execCount[id] = 1
    /\ nEnq = runStart.enq

\* C8 as stated: whenever a run returns and no enqueue ran since it began, the
\* pending set is empty.
C8_EmptyOnReturn ==
    ((Returned("execute_all") \/ Returned("execute_sequential")) /\ nEnq = runStart.enq)
        => commands = <<>>

\* C8 amended: with no enqueue since the run began, the pending set is empty when
\* execute_all returns (Ok or Err) and when execute_sequential returns Ok; when
\* execute_sequential returns an error, the commands behind the failed one are still
\* pending. In every case the queue can be run again.
C8_DrainedUnlessSequentialError ==
    /\ ((Returned("execute_all") \/ Returned("execute_sequential")) /\ nEnq = runStart.enq) =>
        IF ret.op = "execute_sequential" /\ ret.tag = "err"
        THEN Len(commands) = runStart.enq - nDeq
        ELSE commands = <<>>
    /\ pc = "idle" => (ENABLED ExecuteAllBegin /\ ENABLED ExecuteSequentialBegin)

\* C8 witness: a queue that was run before is run again by execute_all, which
\* returns with the pending set empty.
C8_Witness ==
    /\ Returned("execute_all")
    /\ runStart.deq >= 1
    /\ nDeq > runStart.deq
    /\ nEnq = runStart.enq
    /\ commands = <<>>

\* C9: enqueue appends exactly one command at the back and is never held up by a
\* run or by the permit pool; the pending count is the number enqueued minus the
\* number dequeued; pending_count and is_empty answer from the pending set and
\* leave it unchanged.
C9_EnqueueAndProbes ==
    /\ [](Len(commands) = nEnq - nDeq)
    /\ [](nEnq < MaxTasks => ENABLED Enqueue("scrape", Target(nEnq + 1)))
    /\ [][/\ nEnq' = nEnq + 1 =>
              /\ Len(commands') = Len(commands) + 1
              /\ SubSeq(commands', 1, Len(commands)) = commands
              /\ commands'[Len(commands')].id = nEnq'
              /\ nDeq' = nDeq
          /\ probe'.op = "pending_count" =>
              /\ probe'.count = Len(commands)
              /\ commands' = commands
          /\ probe'.op = "is_empty" =>
              /\ probe'.empty = (Len(commands) = 0)
              /\ commands' = commands
          /\ probe'.op # "none" => UNCHANGED <<nEnq, nDeq, permits, units, pc>>
         ]_vars

\* C9 witness: pending_count answered 1 after two enqueues and one dequeue.
C9_Witness ==
    /\ probe.op = "pending_count"
    /\ probe.count = 1
    /\ nEnq = 2
    /\ nDeq = 1

(***************************************************************************)
(* Claims about the cache (under CacheSpec)                                *)
(***************************************************************************)

\* Client c takes the lookup step of a get of key k.
LooksUp(c, k) ==
    /\ cachePc[c] = "idle"
    /\ cachePc'[c] = "get_stats"
    /\ cacheLocal'[c].key = k

\* Client c takes the counting step of a get and returns.
Counts(c) ==
    /\ cachePc[c] = "get_stats"
    /\ cachePc'[c] = "idle"

\* C10: with a ttl of zero, a store of value V under key K followed by a get of K
\* with no other call on the cache in between (however much time passes) finds V:
\* the get returns Some(V), adds exactly one to the hit counter and leaves the miss
\* counter as it was.
C10_StoreThenGetHits ==
    [][\A c \in CacheClients :
          /\ (ttl = 0 /\ lastCacheOp.op = "store" /\ LooksUp(c, lastCacheOp.key)) =>
                /\ cacheLocal'[c].branch = "hit"
                /\ cacheLocal'[c].result = SomeResult(lastCacheOp.result)
          /\ (Counts(c) /\ cacheLocal[c].branch = "hit") =>
                /\ cacheRet'.op = "get"
                /\ cacheRet'.key = cacheLocal[c].key
                /\ cacheRet'.result = cacheLocal[c].result
                /\ statistics'.cache_hits = statistics.cache_hits + 1
                /\ statistics'.cache_misses = statistics.cache_misses
      ]_vars

\* C10 witness: under a ttl of zero a result was stored, time passed, and the get
\* that followed returned it and was counted as the only hit, with no miss.
C10_Witness ==
    /\ ttl = 0
    /\ nCacheOps = 2
    /\ lastCacheOp.op = "get"
    /\ cacheRet.op = "get"
    /\ cacheRet.key = lastCacheOp.key
    /\ cache[cacheRet.key].present
    /\ cache[cacheRet.key].created_at = 0
    /\ cache[cacheRet.key].last_accessed = TickMs
    /\ cacheRet.result = SomeResult(cache[cacheRet.key].result)
    /\ statistics.cache_hits = 1
    /\ statistics.cache_misses = 0

\* C11: an entry stored while the ttl is 1 ms is expired for a get issued 2 ms or
\* more after the store: the get takes the expired branch (it returns None) and
\* removes the entry.
C11_SubSecondTtlExpires ==
    [][\A c \in CacheClients, k \in AllKeys :
          (/\ ttl = 1
           /\ LooksUp(c, k)
           /\ cache[k].present
           /\ now >= cache[k].created_at + 2) =>
                /\ cacheLocal'[c].branch = "expired"
                /\ ~cache'[k].present
      ]_vars

\* The entry has an expiry time and it lies before time t.
PastExpiry(entry, t) == entry.expires_at.some /\ t > entry.expires_at.at

Starts(op) == nCacheOps' = nCacheOps + 1 /\ lastCacheOp'.op = op

\* C13: a store inserts or overwrites unconditionally: after it the key holds the
\* stored value, the other keys are untouched and the number of entries grows by one
\* only if the key was not there; a get that follows it (the entry not yet expired)
\* returns that value, also when the store overwrote another one. An entry stored
\* with a ttl of zero is never removed by a get or by clean_expired, however much
\* time passes.
C13_StoreOverwritesAndZeroTtlStays ==
    [][/\ Starts("store") =>
            LET k == lastCacheOp'.key IN
            /\ cache'[k].present
            /\ cache'[k].result = lastCacheOp'.result
            /\ \A j \in AllKeys \ {k} : cache'[j] = cache[j]
            /\ CacheLen(cache') = IF cache[k].present THEN CacheLen(cache)
                                  ELSE CacheLen(cache) + 1
       /\ \A c \in CacheClients :
            (/\ lastCacheOp.op = "store"
             /\ LooksUp(c, lastCacheOp.key)
             /\ ~PastExpiry(cache[lastCacheOp.key], now)) =>
                cacheLocal'[c].result = SomeResult(lastCacheOp.result)
       /\ (ttl = 0 /\ (Starts("get") \/ Starts("clean"))) =>
            \A k \in AllKeys : cache[k].present => cache'[k].present
      ]_vars

\* C13 witness: under a ttl of zero a second store overwrote the first under the same
\* key (one entry, two stores), time passed, and the get returned the second value.
C13_Witness ==
    /\ ttl = 0
    /\ nTicks = 1
    /\ nCacheOps = 3
    /\ cacheRet.op = "get"
    /\ cacheRet.result = SomeResult(StoredResult("scrape", "a.com", "markdown", 2))
    /\ CacheLen(cache) = 1
    /\ statistics.scrape_entries = 2
    /\ cache[cacheRet.key].last_accessed = TickMs

C15_ClearLeavesZero ==
    (lastCacheOp.op = "clear" /\ \A c \in CacheClients : cachePc[c] = "idle") =>
        /\ CacheLen(cache) = 0
        /\ statistics.cache_hits = 0
        /\ statistics.cache_misses = 0
        /\ statistics.total_entries = 0
        /\ statistics.scrape_entries = 0
        /\ statistics.crawl_entries = 0

\* Client c takes the counting step of a clean_expired and returns.
CleanReturns(c) ==
    /\ cachePc[c] = "clean_stats"
    /\ cachePc'[c] = "idle"

StoredValues ==
    [k \in AllKeys |->
        {StoredResult(cl[1], cl[2], cl[3], v) :
            cl \in {x \in CacheCalls : generate_key(x[2], x[3], x[1]) = k},
            v \in 1..MaxCacheOps}]
WholeValues(k) == StoredValues[k]

\* C17: the cache operations are atomic with respect to each other. Every step
\* leaves in the map only whole entries, each written by one store (the map starts
\* empty); a get, also one that races a store
\* on its key, reads the entry as the last completed store left it, so it returns
\* None, the value from before the store or the value the store wrote, never a
\* mixture.
C17_GetSeesWholeEntries ==
    [][/\ \A k \in AllKeys : cache'[k].present =>
            /\ cache'[k].result \in WholeValues(k)
            /\ cache'[k].variant = Variant(IF cache'[k].result.kind = "Scrape"
                                           THEN "scrape" ELSE "crawl")
       /\ (cacheRet'.op = "get" /\ cacheRet'.result.some) =>
            cacheRet'.result.value \in WholeValues(cacheRet'.key)
       /\ \A c \in CacheClients :
            /\ \A k \in AllKeys : LooksUp(c, k) =>
                  cacheLocal'[c].result \in {NoneResult, SomeResult(cache[k].result)}
            /\ Counts(c) => cacheRet'.result = cacheLocal[c].result
      ]_vars

\* C17 witness: a get read its key, a store then overwrote the key before the get
\* had returned, and the get returned the value from before the store, whole, while
\* the map holds the value the store wrote.
C17_Witness ==
    /\ nCacheOps = 3
    /\ cacheRet.op = "get"
    /\ cacheRet.key = generate_key("a.com", "markdown", "scrape")
    /\ cacheRet.result = SomeResult(StoredResult("scrape", "a.com", "markdown", 1))
    /\ cache[cacheRet.key].result = StoredResult("scrape", "a.com", "markdown", 3)
    /\ lastCacheOp.op = "store"

\* C18: in every snapshot get_statistics returns, hit_rate is the rate computed from
\* the hits and misses of that same snapshot, 100 * hits / (hits + misses), and 0
\* when both are 0.
C18_HitRateNeverStale ==
    cacheRet.op = "get_statistics" =>
        LET st == cacheRet.stats IN
        st.hit_rate = IF st.cache_hits + st.cache_misses = 0 THEN Ratio(0, 1)
                      ELSE Ratio(st.cache_hits * 100, st.cache_hits + st.cache_misses)

Fetched(tg) ==
    {i \in 1..Len(svcRet) :
        /\ svcRet[i].task = tg
        /\ \/ svcRet[i].tag = "ok" /\ ~svcRet[i].from_cache
           \/ svcRet[i].tag = "err" /\ MakesRequest(svcRet[i].error)}

\* The entry under key k is within its ttl at the present time (a ttl of zero is
\* no limit).
Fresh(k) == ttl = 0 \/ now <= cache[k].created_at + ttl

\* C20: running the same scrape task twice with the cache in place makes one remote
\* call. A run that misses executes the command, with one request to the remote API,
\* and writes the result through to the cache; when the run before it was a
\* successful run of the same task and the entry is still within its ttl, a run is a
\* cache hit: it returns the same result and makes no remote call.
C20_SecondRunIsCacheHit ==
    /\ [](\A tg \in CallsOf("scrape") :
            remoteCalls[tg] = Cardinality(Fetched(tg))
                              + (IF svcPc = "store" /\ svcTask = tg THEN 1 ELSE 0))
    /\ [](\A i \in 1..Len(svcRet) :
            (i > 1 /\ svcRet[i].from_cache) =>
                \E j \in 1..(i - 1) :
                    /\ svcRet[j].task = svcRet[i].task
                    /\ svcRet[j].tag = "ok"
                    /\ svcRet[j].result = svcRet[i].result)
    /\ [][/\ (/\ svcPc = "idle"
              /\ svcPc' = "cache_check"
              /\ Len(svcRet) > 0
              /\ svcRet[Len(svcRet)].task = svcTask'
              /\ svcRet[Len(svcRet)].tag = "ok"
              /\ Fresh(generate_key(svcTask'[1], svcTask'[2], "scrape"))) =>
                    /\ cacheLocal'[ServiceClient].branch = "hit"
                    /\ cacheLocal'[ServiceClient].result =
                            SomeResult(svcRet[Len(svcRet)].result)
          /\ (svcPc = "cache_check" /\ svcPc' # "cache_check") =>
                    IF cacheLocal[ServiceClient].branch = "hit"
                    THEN /\ svcPc' = "idle"
                         /\ remoteCalls' = remoteCalls
                         /\ svcRet' = Append(svcRet, ServiceOk(svcTask,
                                            cacheLocal[ServiceClient].result.value, TRUE))
                    ELSE svcPc' = "execute"
          /\ (svcPc = "store" /\ svcPc' = "idle") =>
                    LET k == generate_key(svcTask[1], svcTask[2], "scrape") IN
                    /\ cache'[k].present
                    /\ cache'[k].result = svcResult
                    /\ svcRet' = Append(svcRet, ServiceOk(svcTask, svcResult, FALSE))
         ]_vars

\* C20 witness: the task was run twice with time passing in between: the first run
\* missed, fetched and stored, the second returned the same result from the cache,
\* and one remote call was made in all.
C20_Witness ==
    /\ ttl = 0
    /\ nTicks = 1
    /\ svcPc = "idle"
    /\ Len(svcRet) = 2
    /\ svcRet[1] = ServiceOk(<<"a.com", "markdown">>,
                             ServiceResult("a.com", "markdown"), FALSE)
    /\ svcRet[2] = ServiceOk(<<"a.com", "markdown">>,
                             ServiceResult("a.com", "markdown"), TRUE)
    /\ remoteCalls[<<"a.com", "markdown">>] = 1
    /\ statistics.cache_hits = 1
    /\ statistics.cache_misses = 1
    /\ cache[generate_key("a.com", "markdown", "scrape")].last_accessed = TickMs

----------------------------------------------------------------------------
(***************************************************************************)
(* Properties of a batch run through the task queue                        *)
(* (TaskService::execute_batch).                                           *)
(***************************************************************************)
\* C21 as stated: when a run of the queue over a batch of n tasks returns with
\* success, it returns n outcomes and the statistics of the progress service show
\* total_tasks = n, completed_tasks = n and failed_tasks = 0.
C21_BatchStatistics ==
    \A op \in {"execute_all", "execute_sequential"} :
        (Returned(op) /\ ret.tag = "ok") =>
            LET n == Len(RunDequeued) IN
                /\ Len(ret.results) = n
                /\ taskStatistics.total_tasks = n
                /\ taskStatistics.completed_tasks = n
                /\ taskStatistics.failed_tasks = 0

----------------------------------------------------------------------------
(***************************************************************************)
(* Properties of the progress service.                                     *)
(***************************************************************************)
\* The callers that have left the statistics lock scope of a `method` call and have
\* not returned from it.
InDispatch(method) ==
    Cardinality({c \in NotifyCallers :
                    notifyPc[c].phase = "dispatch" /\ notifyPc[c].event.method = method})

\* The counter a method's calls add to.
CounterOf(stats, method) ==
    CASE method = "started" -> stats.total_tasks
      [] method = "completed" -> stats.completed_tasks
      [] method = "failed" -> stats.failed_tasks

\* C30: notify_task_started, notify_task_completed and notify_task_failed update
\* their counter synchronously. At every moment the counter of a method is the
\* number of its calls that returned plus those that are past their counting and
\* have not returned yet: each call has added exactly 1 before it returns. So a
\* snapshot of get_statistics shows every call that returned before it, whether
\* or not an observer callback has run.
C30_CountersSynchronous ==
    \A m \in CountingMethods :
        /\ CounterOf(taskStatistics, m) = notified.returned[m] + InDispatch(m)
        /\ snapshot.taken =>
              /\ CounterOf(snapshot.stats, m) >= notified.returned[m]
              /\ CounterOf(snapshot.stats, m) = notified.received[m]

\* Two calls returned, their callbacks are spawned and none has run, and the
\* snapshot taken then shows both.
C30_Witness ==
    /\ snapshot.taken
    /\ notified.returned["started"] = 1
    /\ notified.returned["completed"] = 1
    /\ Cardinality(spawned) = 2
    /\ \A o \in ObserverIds : delivered[o] = <<>>
    /\ snapshot.stats.total_tasks = 1
    /\ snapshot.stats.completed_tasks = 1

----------------------------------------------------------------------------
(***************************************************************************)
(* Properties of the polling of a crawl job (under PollSpec, the liveness  *)
(* under PollLiveSpec).                                                    *)
(***************************************************************************)
\* A status request was answered with a parsed body.
Answered == polls > 0 /\ lastAnswer.fail = ""
\* The status of the last answer.
LastStatus == lastAnswer.response.status
\* The last answer reports the job completed or failed.
TerminalAnswer == Answered /\ LastStatus \in {"completed", "failed"}
\* The number of polls answered with the job in progress: every poll but a last
\* one that failed or reported a terminal status.
InProgressPolls ==
    IF polls > 0 /\ ~InProgressAnswer(lastAnswer) THEN polls - 1 ELSE polls

\* C22: monitor_crawl_job invokes the progress callback once for each poll
\* answered with an in-progress status, before it issues the next poll, and never
\* for the poll answered "completed"; it then returns one result for each page of
\* the completed status, in order, with the page's content.
C22_CallbackPerInProgressPoll ==
    poller = "execute" =>
        /\ callbacks.count =
              InProgressPolls
              - (IF pollPc = "handle" /\ InProgressAnswer(lastAnswer) THEN 1 ELSE 0)
        /\ pollPc = "poll" => callbacks.count = polls
        /\ callbacks.count > 0 => callbacks.last.status = "in_progress"
        /\ pollRet.tag = "ok" =>
              LET data == unwrap_or(lastAnswer.response.data, <<>>) IN
                  /\ Answered /\ LastStatus = "completed"
                  /\ callbacks.count = polls - 1
                  /\ Len(pollRet.results) = Len(data)
                  /\ \A i \in 1..Len(data) :
                        /\ pollRet.results[i].markdown = data[i].markdown
                        /\ data[i].url.some => pollRet.results[i].url = data[i].url.value

C22_Witness ==
    /\ poller = "execute"
    /\ pollRet.tag = "ok"
    /\ polls = 3
    /\ callbacks.count = 2
    /\ Len(pollRet.results) = 2

\* C23: when a poll reports the job failed with reason x, the call ends at once,
\* without another poll, with an error whose message carries x.
C23_FailedCarriesReason ==
    [][\A x \in FailReasons :
          (/\ pollPc = "handle"
           /\ Answered
           /\ LastStatus = "failed"
           /\ lastAnswer.response.error = SomeText(x)) =>
              /\ pollPc' = "done"
              /\ polls' = polls
              /\ pollRet'.tag = "err"
              /\ pollRet'.error.message = "Crawl failed: " \o x]_vars

C23_Witness ==
    /\ poller = "execute"
    /\ pollPc = "done"
    /\ LastStatus = "failed"
    /\ pollRet.tag = "err"
    /\ pollRet.error.message = "Crawl failed: x"
    /\ cmdRet = pollRet

\* C24: the error of a poll that failed is of another kind than the error of a job
\* the remote reports failed.
C24_PollErrorDistinctKind ==
    (pollPc = "done" /\ polls > 0 /\ lastAnswer.fail \in PollFailures) =>
        /\ pollRet.tag = "err"
        /\ \A reason \in FailReasons \cup {"Unknown error"} :
              pollRet.error.kind # JobFailedError(poller, reason).kind

\* C25: the state a poll gives is Completed for the status "completed", Failed for
\* "failed" and InProgress, with the status kept, for every other status; its
\* job id is the id polled.
C25_StatusMapping ==
    Answered =>
        /\ pollState.job_id = pollJob
        /\ pollState.variant =
              (IF LastStatus = "completed" THEN "Completed"
               ELSE IF LastStatus = "failed" THEN "Failed"
               ELSE "InProgress")
        /\ pollState.variant = "InProgress" => pollState.status = LastStatus
        /\ \A job_id \in JobIds, response \in StatusResponses :
              check_crawl_status(job_id, response).variant
                  \in {"Completed", "Failed", "InProgress"}

C25_Witness ==
    /\ Answered
    /\ LastStatus = "started"
    /\ pollState.variant = "InProgress"
    /\ pollState.job_id = "job2"
    /\ pollJob = "job2"

\* C26: the polling loop ends only on a poll that failed or reported a terminal
\* status, however many polls were answered in progress; and once the job is
\* started the call returns, the remote answering all but finitely many polls
\* with a terminal status.
C26_PollsUntilTerminal ==
    /\ []((pollPc = "done" /\ polls > 0) => ~InProgressAnswer(lastAnswer))
    /\ (pollPc = "poll") ~> (pollPc = "done")

C26_Witness ==
    /\ pollPc = "done"
    /\ polls = MaxPolls + 1
    /\ TerminalAnswer
    /\ pollRet.tag \in {"ok", "err"}

\* C27: after a poll reported the job completed or failed there is no other poll
\* and no other callback, and the call returns the outcome of that poll: the pages
\* for a completed job, the error for a failed one.
C27_TerminalIsFinal ==
    [][TerminalAnswer =>
          /\ polls' = polls
          /\ lastAnswer' = lastAnswer
          /\ callbacks' = callbacks
          /\ pollPc = "handle" =>
                pollRet'.tag = (IF LastStatus = "completed" THEN "ok" ELSE "err")
          /\ pollPc # "handle" => pollRet' = pollRet]_vars

C27_Witness ==
    /\ poller = "execute"
    /\ pollPc = "done"
    /\ TerminalAnswer
    /\ LastStatus = "completed"
    /\ polls = 2
    /\ callbacks.count = 1
    /\ cmdRet.tag = "ok"

----------------------------------------------------------------------------
(***************************************************************************)
(* Properties of a crawl task (under CrawlTaskSpec) and of a command       *)
(* without url (under PollSpec).                                           *)
(***************************************************************************)
\* C28: a crawl task that missed the cache polls its job only after it started
\* it, and every in-progress poll the command was called back for has reached the
\* progress service as a progress notification.
C28_ProgressForwarded ==
    svcPc = "crawl_execute" =>
        /\ polls > 0 => startLog.count = 1
        /\ notified.received["progress"] >= callbacks.count

\* C29: a command without a target url makes no request to the remote, neither
\* to start a job nor to poll one, and what it returns is a ValidationError.
C29_NoUrlNoRemoteCall ==
    (poller \in {"builder", "execute"} /\ cmdUrl = "") =>
        /\ startLog.count = 0
        /\ polls = 0
        /\ cmdRet.tag = "err" => cmdRet.error.kind = "ValidationError"

----------------------------------------------------------------------------
(***************************************************************************)
(* Properties of the cache's statistics snapshot (under CacheSpec).        *)
(***************************************************************************)
\* C40: the statistics get_statistics returns have total_entries equal to the
\* number of entries in the map when it is called, and equal to scrape_entries +
\* crawl_entries, whatever stores, overwrites, gets, sweeps and clears came before.
C40_SnapshotConsistent ==
    [][(cacheRet' # cacheRet /\ cacheRet'.op = "get_statistics") =>
          /\ cache' = cache
          /\ cacheRet'.stats.total_entries = Cardinality({k \in AllKeys : cache[k].present})
          /\ cacheRet'.stats.total_entries =
                cacheRet'.stats.scrape_entries + cacheRet'.stats.crawl_entries]_vars

\* C40 witness: a snapshot taken after a key was stored twice: the stored counter
\* says two scrape entries, the snapshot says one.
C40_Witness ==
    /\ cacheRet.op = "get_statistics"
    /\ statistics.scrape_entries = 2
    /\ CacheLen(cache) = 1
    /\ cacheRet.stats.total_entries = 1
    /\ cacheRet.stats.scrape_entries = 1
    /\ cacheRet.stats.crawl_entries = 0

----------------------------------------------------------------------------
(***************************************************************************)
(* Properties of failed tasks (under ServiceSpec).                         *)
(***************************************************************************)
\* The last call returned.
LastRet == svcRet[Len(svcRet)]

\* C35: the step that returns a task's error comes from the command's execute; it
\* leaves the cache map as it was, notifies one failed event and no started or
\* completed event, and a failed execute of a crawl command returns its error to
\* the caller. Every entry of the cache is the result of a call that returned Ok
\* after executing.
C35_FailureLeavesCache ==
    /\ [][(Len(svcRet') = Len(svcRet) + 1 /\ svcRet'[Len(svcRet')].tag = "err") =>
             /\ svcPc \in {"execute", "crawl_execute"}
             /\ svcRet'[Len(svcRet')].task = svcTask
             /\ cache' = cache
             /\ notified'.received["failed"] = notified.received["failed"] + 1
             /\ notified'.received["completed"] = notified.received["completed"]
             /\ notified'.received["started"] = notified.received["started"]]_vars
    /\ [][(svcPc = "crawl_execute" /\ pollPc = "done" /\ cmdRet.tag = "err"
             /\ svcPc' # svcPc) =>
             /\ Len(svcRet') = Len(svcRet) + 1
             /\ svcRet'[Len(svcRet')].tag = "err"
             /\ svcRet'[Len(svcRet')].error = cmdRet.error.kind]_vars
    /\ [](\A k \in AllKeys :
            cache[k].present =>
                \E i \in 1..Len(svcRet) :
                    /\ svcRet[i].tag = "ok"
                    /\ ~svcRet[i].from_cache
                    /\ svcRet[i].result = cache[k].result)

\* C35 witness: a crawl whose job the remote reported failed, after a scrape that
\* succeeded: one entry in the cache, one completed and one failed event.
C35_Witness ==
    /\ svcPc = "idle"
    /\ Len(svcRet) = 2
    /\ svcRet[1].tag = "ok"
    /\ LastRet.tag = "err"
    /\ LastRet.error = "ApiError::Other"
    /\ LastRet.task \in CallsOf("crawl")
    /\ CacheLen(cache) = 1
    /\ notified.received["started"] = 2
    /\ notified.received["completed"] = 1
    /\ notified.received["failed"] = 1

----------------------------------------------------------------------------
(***************************************************************************)
(* Properties of the task counters under concurrent tasks (under           *)
(* CallerSpec).                                                            *)
(***************************************************************************)
\* C36: with every notification coming from a task of the task service, the
\* tasks running in any interleaving, completed_tasks + failed_tasks never
\* exceeds total_tasks, no counter decreases, and the events of a task that missed
\* the cache are one started, then at most one of completed and failed.
C36_CountersOfTasks ==
    /\ [](taskStatistics.completed_tasks + taskStatistics.failed_tasks
              <= taskStatistics.total_tasks)
    /\ [][/\ taskStatistics'.total_tasks >= taskStatistics.total_tasks
          /\ taskStatistics'.completed_tasks >= taskStatistics.completed_tasks
          /\ taskStatistics'.failed_tasks >= taskStatistics.failed_tasks]_vars
    /\ [](\A c \in NotifyCallers :
            /\ taskLog[c] \in {<<>>, <<"started">>, <<"started", "completed">>,
                               <<"started", "failed">>}
            /\ taskPhase[c] # "idle" => taskLog[c] # <<>>)
    /\ [][notified'.received # notified.received =>
            \E c \in NotifyCallers :
                /\ Len(taskLog'[c]) = 1 \/ Len(taskLog'[c]) = Len(taskLog[c]) + 1
                /\ notified'.received =
                      [notified.received EXCEPT ![taskLog'[c][Len(taskLog'[c])]] = @ + 1]]_vars

\* C36 witness: a task has notified started and failed and is inside its
\* notify_task_failed, and a snapshot of the counters was taken.
C36_Witness ==
    /\ taskLog[1] = <<"started", "failed">>
    /\ taskPhase[1] = "returning"
    /\ notifyPc[1].phase = "dispatch"
    /\ taskPhase[2] = "idle"
    /\ snapshot.taken
    /\ snapshot.stats.total_tasks = 1
    /\ snapshot.stats.failed_tasks = 1
    /\ snapshot.stats.completed_tasks = 0

----------------------------------------------------------------------------
(***************************************************************************)
(* Properties of the error taxonomy (under ErrorSpec).                     *)
(***************************************************************************)
\* The kind an error is of, whichever variant expresses it.
IsNetworkKind(e) ==
    e.variant = "NetworkError" \/ (e.variant = "ApiError" /\ e.inner = "RequestError")
IsTimeoutKind(e) ==
    e.variant = "TimeoutError" \/ (e.variant \in {"ApiError", "NetworkError"}
                                    /\ e.inner = "Timeout")
IsRateLimitKind(e) ==
    e.variant = "RateLimitError" \/ (e.variant = "ApiError"
                                      /\ e.inner = "RateLimitExceeded")

\* C34: every network, timeout and rate-limit error is answered retryable, every
\* validation and storage error not retryable.
C34_RetryableByKind ==
    \A i \in 1..Len(classified) :
        LET e == classified[i].error IN
            /\ (IsNetworkKind(e) \/ IsTimeoutKind(e) \/ IsRateLimitKind(e)) =>
                    classified[i].retryable
            /\ e.variant \in {"ValidationError", "StorageError"} =>
                    ~classified[i].retryable

----------------------------------------------------------------------------
(***************************************************************************)
(* Termination of execute_all (under QueueLiveSpec).                       *)
(***************************************************************************)
\* C39: with a limit of at least one, a call of execute_all returns; with a limit
\* of zero no unit ever gets a permit, and a call that dispatched at least one
\* command never returns.
C39_TerminatesIffPermits ==
    /\ (limit >= 1 /\ pc \in {"all_loop", "all_join"})
            ~> (pc = "idle" /\ ret.op = "execute_all" /\ ret.tag \in {"ok", "err"})
    /\ [](limit = 0 => \A t \in 1..Len(units) : units[t].st = "waiting")
    /\ [][(limit = 0 /\ pc = "all_join" /\ handles # <<>>) =>
                (pc' = "all_join" /\ ret' = NoReturn)]_vars
    /\ [][(limit = 0 /\ pc = "all_loop" /\ nDeq > runStart.deq) => pc' # "idle"]_vars

\* C39 witness: with one permit, execute_all has returned the results of two
\* commands.
C39_Witness ==
    /\ limit = 1
    /\ pc = "idle"
    /\ ret.op = "execute_all"
    /\ ret.tag = "ok"
    /\ Len(ret.results) = 2

----------------------------------------------------------------------------
(***************************************************************************)
(* Properties of concurrent runs on one queue (under RunSpec).             *)
(***************************************************************************)
\* The number of times command `id` was handed to runner r.
TakenBy(r, id) == Cardinality({i \in 1..Len(runTaken[r]) : runTaken[r][i] = id})
\* The number of times command `id` is in the deque.
PendingOf(id) == Cardinality({i \in 1..Len(commands) : commands[i].id = id})

\* C38: every enqueued command is either in the deque once and taken by no run,
\* or out of the deque and taken once by exactly one run; nothing that was not
\* enqueued is taken.
C38_NoTaskLostOrTwice ==
    /\ \A id \in 1..nEnq :
            \/ PendingOf(id) = 1 /\ \A r \in Runners : TakenBy(r, id) = 0
            \/ /\ PendingOf(id) = 0
               /\ \E r \in Runners :
                    /\ TakenBy(r, id) = 1
                    /\ \A o \in Runners \ {r} : TakenBy(o, id) = 0
    /\ \A r \in Runners : \A i \in 1..Len(runTaken[r]) : runTaken[r][i] \in 1..nEnq
    /\ Len(deqLog) + Len(commands) = nEnq

\* C38 witness: two runs are in their loops at once, one by execute_all and one
\* by execute_sequential, and each has taken one of the two commands.
C38_Witness ==
    /\ nEnq = 2
    /\ runPc[1] = "all_loop"
    /\ runPc[2] = "seq_exec"
    /\ runTaken[1] = <<2>>
    /\ runTaken[2] = <<1>>
    /\ commands = <<>>

----------------------------------------------------------------------------
(***************************************************************************)
(* Properties of the cache's lock scopes (under LockSpec).                 *)
(***************************************************************************)
\* C37: no call asks for the cache lock while it holds the statistics lock, and
\* every call of store, get, exists, clear, clean_expired and get_statistics
\* returns, whatever the other clients call meanwhile.
C37_CacheCallsComplete ==
    /\ [](\A c \in LockClients :
            LockHolds(c, "statistics") =>
                /\ ~LockWaits(c, "cache")
                /\ ~(LockInside(c) /\ LockAt(c).act = "acquire" /\ LockAt(c).lock = "cache"))
    /\ \A c \in LockClients : (lockOp[c] # "none") ~> (lockOp[c] = "none")

\* C37 witness: a store holds the cache lock and waits for the statistics lock,
\* which a get holds, while get_statistics waits for the cache lock.
C37_Witness ==
    /\ lockOp[1] = "store"
    /\ LockHolds(1, "cache")
    /\ LockWaits(1, "statistics")
    /\ lockOp[2] = "get"
    /\ LockHolds(2, "statistics")
    /\ lockOp[3] = "get_statistics"
    /\ LockWaits(3, "cache")

----------------------------------------------------------------------------
(***************************************************************************)
(* Properties of the delivery of events to an observer (under              *)
(* ProgressSpec).                                                          *)
(***************************************************************************)
\* C32 as stated: an observer's log holds the events of one caller once each and
\* in the order the caller made its notify_* calls (a caller's calls follow one
\* another, so their order is that of the events' seq).
C32_DeliveredInCallOrder ==
    \A o \in ObserverIds :
        \A i, j \in 1..Len(delivered[o]) :
            (i < j /\ delivered[o][i].url = delivered[o][j].url) =>
                delivered[o][i].seq < delivered[o][j].seq

----------------------------------------------------------------------------
(***************************************************************************)
(* Properties of delivery beside an observer that hangs or panics (under   *)
(* DeliverySpec).                                                          *)
(***************************************************************************)
\* The responsive observer has received the event of call n.
HasReceived(o, n) == \E i \in 1..Len(delivered[o]) : delivered[o][i].seq = n

\* C31: whatever the callbacks of the stuck observer do, every notify_* call
\* returns; its dispatch spawns a callback for every observer registered then; each
\* callback spawned for the responsive observer is eventually received by it; and a
\* callback that hangs or panics changes neither a caller's call nor another
\* observer's log.
C31_DeliveryIndependent ==
    /\ \A c \in DeliveryCallers :
            (notifyPc[c].phase = "dispatch") ~> (notifyPc[c].phase = "idle")
    /\ \A n \in 1..MaxNotifies : \A o \in ObserverIds :
            (\E cb \in spawned : cb.observer = o /\ cb.event.seq = n) ~> HasReceived(o, n)
    /\ [][\A c \in DeliveryCallers :
            (notifyPc[c].phase = "dispatch" /\ notifyPc'[c].phase = "idle") =>
                \A o \in observers :
                    [observer |-> o, event |-> notifyPc[c].event] \in spawned']_vars
    /\ [][(\E cb \in spawned \ spawned' : cb.observer = StuckObserver) =>
                /\ delivered' = delivered
                /\ notifyPc' = notifyPc
                /\ notified' = notified
                /\ spawned \ spawned' \subseteq {cb \in spawned : cb.observer = StuckObserver}]_vars

\* C31 witness: two calls have returned; the stuck observer's callback of the first
\* hangs and that of the second panicked, and the responsive observer has received
\* both events.
C31_Witness ==
    /\ observers = AllObservers
    /\ notified.returned["started"] = 1
    /\ notified.returned["progress"] = 1
    /\ Cardinality(hanging) = 1
    /\ \E cb \in hanging : cb.event.seq = 1
    /\ spawned = {}
    /\ Len(delivered["console"]) = 2
    /\ delivered[StuckObserver] = <<>>

----------------------------------------------------------------------------
(***************************************************************************)
(* Properties of register_observer / unregister_observer beside notify_*   *)
(* calls (under RegistrySpec).                                             *)
(***************************************************************************)
\* Client c's notify_* call passes from waiting for the observers read lock to its
\* dispatch in this step.
Dispatches(c) ==
    /\ lockOp[c] \in NotifyOps
    /\ LockInside(c)
    /\ LockAt(c).lock = "observers"
    /\ lockPc'[c] = lockPc[c] + 1

\* C33: every call of register_observer, unregister_observer and notify_* returns;
\* a notify_* call that began after unregister_observer returned (or before any
\* registration), with no register / unregister call overlapping it, spawns no
\* callback; one that began after register_observer returned spawns the callback of
\* the observer.
C33_RegistrySafe ==
    /\ \A c \in LockClients : (lockOp[c] # "none") ~> (lockOp[c] = "none")
    /\ [][\A c \in LockClients :
            Dispatches(c) =>
                /\ regView[c] \in {"unregister_observer", "none"} => spawned' = spawned
                /\ regView[c] = "register_observer" =>
                        \E cb \in spawned' \ spawned : cb.observer \in ObserverIds]_vars

\* C33 witness: the call of notify_task_started, made while the observer was
\* registered, spawned its callback; the call of notify_task_progress, made after
\* unregister_observer returned, has dispatched and spawned nothing.
C33_Witness ==
    /\ regReturned = "unregister_observer"
    /\ observers = {}
    /\ lockOp[1] = "notify_task_progress"
    /\ lockPc[1] = 2
    /\ regView[1] = "unregister_observer"
    /\ notified.returned["started"] = 1
    /\ notified.received["progress"] = 1
    /\ Cardinality(spawned) + Len(delivered["console"]) = 1
    /\ \A cb \in spawned : cb.event.method = "started"

====
